---- MODULE Spec2Model ----
(***************************************************************************)
(* Model of the go-plugin library (src/plugin.go, src/status.go): the      *)
(* Plugin check run with its status, messages and metrics, the threshold   *)
(* evaluation of AddMetric, the worst-wins status aggregation, and the end *)
(* of a run: Final, the exit shortcuts and the recovery of a panic, under  *)
(* the exit hook os.Exit and under a hook that returns.                    *)
(*                                                                         *)
(* Strings the code inspects (metric names, threshold specs, units and     *)
(* string values) are sequences of one-character strings, so that          *)
(* TrimPrefix, Split and ParseFloat are computed character by character.   *)
(* Text the code only builds (messages, errors) is a TLA+ string built by  *)
(* concatenation; Str turns an inspected string into such text.            *)
(*                                                                         *)
(* An int is an integer. A float64 or float32 is held as the decimal that  *)
(* strconv writes for it, the shortest that reads back as the same value;  *)
(* ParseFloat reads the whole grammar of strconv and rounds to the nearest *)
(* value, computing on digit sequences of any length.                      *)
(***************************************************************************)
EXTENDS Integers, Sequences, FiniteSets, TLC

VARIABLES
    p,      \* the Plugin: status, messages, metrics and its public fields
    pre,    \* the Plugin as it was when the last call was made
    call,   \* the last call made on the Plugin, with its arguments
    ret,    \* the error the last call returned (Nil when none)
    passed, \* what the calls were passed so far: the severities passed to
            \* AddResult (kept by SpecAddResult), the names passed to
            \* AddMetric with a value it rejected (kept by SpecValues), the
            \* texts passed to AddMessage in the order of the calls (kept
            \* by SpecMessages), the names AddMetric has registered, as
            \* they were passed (kept by SpecQuoted), how many times each
            \* operation was applied (kept by SpecOrder), the statuses
            \* passed to AddResult (kept by SpecCodes)
    run     \* the run of the function that owns the Plugin: the exit hook in
            \* place, whether Final is deferred, where the function stands,
            \* the panic in flight, the lines written to the output handle
            \* and the codes passed to the exit hook

vars == <<p, pre, call, ret, passed, run>>

-----------------------------------------------------------------------------
(* Bounds of the model *)

\* Longest threshold spec enumerated by SpecEval.
MaxSpecLen == 4

\* Longest message sequence AddMessage, AddResult may extend under Spec and
\* under SpecCodes.
MaxMessages == 1

\* Longest sequence of AddResult calls under SpecAddResult.
MaxResults == 3

\* Most executions of Final in one run under SpecFinal.
MaxFinals == 2

\* Longest metric name enumerated by SpecNames.
MaxNameLen == 4

\* Most AddMessage calls in one run under SpecMessages.
MaxAdded == 3

\* Most operations applied to one Plugin under SpecOrder.
MaxApplied == 4

-----------------------------------------------------------------------------
(* src/status.go *)

OK == 0
WARNING == 1
CRITICAL == 2
UNKNOWN == 3

Statuses == {OK, WARNING, CRITICAL, UNKNOWN}

ExitCode(st) == st

\* String without the case of WARNING, which falls to the default.
StatusStringNoWarning(st) ==
    CASE st = 0 -> "OK"
      [] st = 2 -> "CRITICAL"
      [] OTHER  -> "UNKNOWN"

StatusString(st) ==
    CASE st = 0 -> "OK"
      [] st = 1 -> "WARNING"
      [] st = 2 -> "CRITICAL"
      [] OTHER  -> "UNKNOWN"

-----------------------------------------------------------------------------
(* Strings *)

\* The text of an inspected string.
RECURSIVE Str(_)
Str(s) == IF s = <<>> THEN "" ELSE Head(s) \o Str(Tail(s))

\* The error value of a call that returns no error.
Nil == "<nil>"

\* x := v, and what follows it: v is computed once.
With(v, Rest(_)) == Rest(v)

-----------------------------------------------------------------------------
(* Natural numbers of any size (package strconv computes on uint64 and on  *)
(* its decimal type): the sequence of the decimal digits, most significant *)
(* first, without leading zeros; <<>> is 0. Long sequences are worked on   *)
(* by halves.                                                              *)

\* the first position of lo..hi at which a and b differ, or hi + 1
RECURSIVE Differ(_, _, _, _)
Differ(a, b, lo, hi) ==
    IF lo > hi THEN hi + 1
    ELSE IF lo = hi THEN IF a[lo] # b[lo] THEN lo ELSE hi + 1
    ELSE LET mid == (lo + hi) \div 2
             l   == Differ(a, b, lo, mid)
         IN  IF l <= mid THEN l ELSE Differ(a, b, mid + 1, hi)

\* a without its leading zeros
TrimLeft(a) == SubSeq(a, Differ(a, [i \in 1..Len(a) |-> 0], 1, Len(a)), Len(a))

\* a without its trailing zeros
TrimRight(a) ==
    LET n == Len(a)
        reversed == [i \in 1..n |-> a[n + 1 - i]]
    IN  SubSeq(a, 1, n + 1 - Differ(reversed, [i \in 1..n |-> 0], 1, n))

\* a < b
BigLess(a, b) ==
    \/ Len(a) < Len(b)
    \/ /\ Len(a) = Len(b)
       /\ With(Differ(a, b, 1, Len(a)), LAMBDA i : i <= Len(a) /\ a[i] < b[i])

\* a * k + c, for a factor k below 10^7
MulAdd(a, k, c) ==
    LET \* the digits of the number n
        RECURSIVE Digits(_)
        Digits(n) == IF n = 0 THEN <<>> ELSE Append(Digits(n \div 10), n % 10)
        \* the digits lo..hi of a * k + carry and the carry out of them; with
        \* nothing to add to a * 1, the digits above stay as they are
        RECURSIVE MulRange(_, _, _)
        MulRange(lo, hi, carry) ==
            IF lo > hi THEN [d |-> <<>>, c |-> carry]
            ELSE IF lo = hi
            THEN [d |-> <<(a[lo] * k + carry) % 10>>,
                  c |-> (a[lo] * k + carry) \div 10]
            ELSE LET mid == (lo + hi) \div 2
                     r   == MulRange(mid + 1, hi, carry)
                     l   == MulRange(lo, mid, r.c)
                 IN  IF r.c = 0 /\ k = 1
                     THEN [d |-> SubSeq(a, lo, mid) \o r.d, c |-> 0]
                     ELSE [d |-> l.d \o r.d, c |-> l.c]
    IN  With(MulRange(1, Len(a), c), LAMBDA all : Digits(all.c) \o all.d)

\* a * k^n, for k up to 5
RECURSIVE MulPow(_, _, _)
MulPow(a, k, n) ==
    LET RECURSIVE SmallPow(_)
        SmallPow(m) == IF m = 0 THEN 1 ELSE k * SmallPow(m - 1)
    IN  IF a = <<>> THEN <<>>
        ELSE IF n <= 9 THEN MulAdd(a, SmallPow(n), 0)
        ELSE MulPow(MulPow(a, k, n \div 2), k, n - n \div 2)

\* a - b, for a >= b
BigSub(a, b) ==
    LET \* the digits lo..hi of a - b - borrow, the digits of b standing below
        \* the last digits of a, and the borrow out of them; with nothing to
        \* take away, the digits above stay as they are
        RECURSIVE SubRange(_, _, _)
        SubRange(lo, hi, borrow) ==
            IF lo > hi THEN [d |-> <<>>, c |-> borrow]
            ELSE IF lo = hi
            THEN LET j == lo - (Len(a) - Len(b))
                     t == a[lo] - (IF j >= 1 THEN b[j] ELSE 0) - borrow
                 IN  [d |-> <<IF t < 0 THEN t + 10 ELSE t>>,
                      c |-> IF t < 0 THEN 1 ELSE 0]
            ELSE LET mid == (lo + hi) \div 2
                     r   == SubRange(mid + 1, hi, borrow)
                     l   == SubRange(lo, mid, r.c)
                 IN  IF r.c = 0 /\ mid <= Len(a) - Len(b)
                     THEN [d |-> SubSeq(a, lo, mid) \o r.d, c |-> 0]
                     ELSE [d |-> l.d \o r.d, c |-> l.c]
    IN  TrimLeft(SubRange(1, Len(a), 0).d)

\* the quotient q and the remainder r of a by b, by long division
DivMod(a, b) ==
    LET \* how many times b goes into r, for r < 10 * b, and what is left
        RECURSIVE Goes(_, _)
        Goes(r, n) ==
            IF BigLess(r, b) THEN [q |-> n, r |-> r] ELSE Goes(BigSub(r, b), n + 1)
        \* the division of the digits lo..hi of a behind the remainder r of
        \* the digits before them
        RECURSIVE DivRange(_, _, _)
        DivRange(lo, hi, r) ==
            IF lo > hi THEN [q |-> <<>>, r |-> r]
            ELSE IF lo = hi
            THEN With(Goes(TrimLeft(Append(r, a[lo])), 0),
                      LAMBDA g : [q |-> <<g.q>>, r |-> g.r])
            ELSE LET mid == (lo + hi) \div 2
                     l   == DivRange(lo, mid, r)
                     h   == DivRange(mid + 1, hi, l.r)
                 IN  [q |-> l.q \o h.q, r |-> h.r]
    IN  With(DivRange(1, Len(a), <<>>),
             LAMBDA all : [q |-> TrimLeft(all.q), r |-> all.r])

-----------------------------------------------------------------------------
(* Floating-point values. A float64 or float32 that is a number is held as *)
(* the shortest decimal that reads back as the same value, the one         *)
(* strconv writes for it: 0.d1 d2 ... dn * 10^dp, digits without leading   *)
(* or trailing zeros, none for zero. Distinct values of one type have      *)
(* distinct decimals, in the same order. A decimal of at most exact digits *)
(* and a point within span places is the shortest decimal of its value.    *)

float32info ==
    [mantbits |-> 23, expbits |-> 8, bias |-> 0 - 127, exact |-> 6, span |-> 30]

float64info ==
    [mantbits |-> 52, expbits |-> 11, bias |-> 0 - 1023, exact |-> 15, span |-> 300]

Num(neg, d, dp) ==
    [class |-> "num", neg |-> neg, d |-> d, dp |-> IF d = <<>> THEN 0 ELSE dp]

\* math.Inf(sign)
Inf(neg) == [class |-> "inf", neg |-> neg, d |-> <<>>, dp |-> 0]

\* math.NaN()
NaN == [class |-> "nan", neg |-> FALSE, d |-> <<>>, dp |-> 0]

\* a < b on floating-point values: false when either side is NaN
Less(a, b) ==
    LET Zero(x) == x.class = "num" /\ x.d = <<>>
        Neg(x)  == x.neg /\ ~Zero(x)
        n       == IF Len(a.d) < Len(b.d) THEN Len(b.d) ELSE Len(a.d)
        Pad(d)  == d \o [i \in 1..(n - Len(d)) |-> 0]
        \* |x| < |y|
        Below(x, y) ==
            IF x.class = "inf" THEN FALSE
            ELSE IF y.class = "inf" THEN TRUE
            ELSE IF Zero(y) THEN FALSE
            ELSE IF Zero(x) THEN TRUE
            ELSE x.dp < y.dp \/ (x.dp = y.dp /\ BigLess(Pad(x.d), Pad(y.d)))
    IN  /\ a.class # "nan" /\ b.class # "nan"
        /\ IF Neg(a) # Neg(b) THEN Neg(a)
           ELSE IF Neg(a) THEN Below(b, a)
           ELSE Below(a, b)

\* roundShortest: the shortest decimal that reads back as mant * 2^exp in the
\* type flt, for a mantissa mant > 0 of mantbits + 1 bits, of fewer when exp
\* is the least exponent of the type
roundShortest(mant, exp, flt) ==
    LET \* decimal.RoundDown(nd), RoundUp(nd) and Round(nd)
        RoundDown(a, nd) ==
            IF nd < 0 \/ nd >= Len(a.d) THEN a
            ELSE [d |-> TrimRight(SubSeq(a.d, 1, nd)), dp |-> a.dp]
        RoundUp(a, nd) ==
            IF nd < 0 \/ nd >= Len(a.d) THEN a
            ELSE LET low == {i \in 1..nd : a.d[i] < 9}
                     i   == CHOOSE x \in low : \A y \in low : y <= x
                 IN  IF low = {} THEN [d |-> <<1>>, dp |-> a.dp + 1]
                     ELSE [d  |-> Append(SubSeq(a.d, 1, i - 1), a.d[i] + 1),
                           dp |-> a.dp]
        shouldRoundUp(a, nd) ==
            IF nd < 0 \/ nd >= Len(a.d) THEN FALSE
            ELSE IF a.d[nd + 1] = 5 /\ nd + 1 = Len(a.d)
            THEN nd > 0 /\ a.d[nd] % 2 # 0
            ELSE a.d[nd + 1] >= 5
        Round(a, nd) ==
            IF shouldRoundUp(a, nd) THEN RoundUp(a, nd) ELSE RoundDown(a, nd)
        \* the decimal of m * 2^e in full (decimal.Assign, decimal.Shift)
        Shifted(m, e) ==
            With(MulPow(m, IF e >= 0 THEN 2 ELSE 5, IF e >= 0 THEN e ELSE 0 - e),
                 LAMBDA all :
                     [d  |-> TrimRight(all),
                      dp |-> IF e >= 0 THEN Len(all) ELSE Len(all) + e])
        minexp == flt.bias + 1 - flt.mantbits
        inclusive == mant[Len(mant)] % 2 = 0
        \* the loop over the digits of d, from the digit ui of upper on
        RECURSIVE Walk(_, _, _, _, _)
        Walk(d, upper, lower, ui, delta) ==
            LET mi == ui - upper.dp + d.dp
                li == ui - upper.dp + lower.dp
                l  == IF li >= 0 /\ li < Len(lower.d) THEN lower.d[li + 1] ELSE 0
                m  == IF mi >= 0 THEN d.d[mi + 1] ELSE 0
                u  == IF ui < Len(upper.d) THEN upper.d[ui + 1] ELSE 0
                okdown == l # m \/ (inclusive /\ li + 1 = Len(lower.d))
            IN  With(IF delta = 0 /\ m + 1 < u THEN 2
                     ELSE IF delta = 0 /\ m # u THEN 1
                     ELSE IF delta = 1 /\ (m # 9 \/ u # 0) THEN 2
                     ELSE delta,
                     LAMBDA upperdelta :
                         With(/\ upperdelta > 0
                              /\ \/ inclusive
                                 \/ upperdelta > 1
                                 \/ ui + 1 < Len(upper.d),
                              LAMBDA okup :
                                  IF mi >= Len(d.d) THEN d
                                  ELSE IF okdown /\ okup THEN Round(d, mi + 1)
                                  ELSE IF okdown THEN RoundDown(d, mi + 1)
                                  ELSE IF okup THEN RoundUp(d, mi + 1)
                                  ELSE Walk(d, upper, lower, ui + 1, upperdelta)))
    IN  \* d is mant * 2^exp, upper the halfway point to the next value
        \* above, lower the one to the next value below, which lies half as
        \* far when mant is the least mantissa of its exponent
        With(Shifted(mant, exp), LAMBDA d :
        With(Shifted(MulAdd(mant, 2, 1), exp - 1), LAMBDA upper :
        With(exp = minexp \/ BigLess(MulPow(<<1>>, 2, flt.mantbits), mant),
             LAMBDA even :
        With(Shifted(BigSub(MulAdd(mant, IF even THEN 2 ELSE 4, 0), <<1>>),
                     exp - (IF even THEN 1 ELSE 2)), LAMBDA lower :
            IF exp > minexp /\ 332 * (d.dp - Len(d.d)) >= 100 * exp THEN d
            ELSE Walk(d, upper, lower, 0, 0)))))

\* The value of the type flt nearest to n / d (n > 0), ties to the even
\* mantissa, as strconv rounds what it reads: its mantissa and exponent
\* (mant * 2^exp), a mantissa 0 when n / d rounds to zero, and over when it
\* lies beyond the largest value of the type.
floatBits(n, d, flt) ==
    LET \* y doubled until x / y lies below 2, for x >= y
        RECURSIVE Halved(_, _, _)
        Halved(x, y, e) ==
            With(MulAdd(y, 2, 0), LAMBDA twice :
                IF BigLess(x, twice) THEN [n |-> x, d |-> y, exp |-> e]
                ELSE Halved(x, twice, e + 1))
        \* the doublings start from a power of two below n / d, found from
        \* the numbers of digits
        est    == ((Len(n) - Len(d) - 1) * 33219) \div 10000 - 1
        minexp == flt.bias + 1 - flt.mantbits
        maxexp == 0 - flt.bias
    IN  \* n / d brought between 1 and 2 by doubling either side, v.exp
        \* counting the doublings
        With(Halved(IF est < 0 THEN MulPow(n, 2, 0 - est) ELSE n,
                    IF est > 0 THEN MulPow(d, 2, est) ELSE d, est), LAMBDA v :
        With(IF v.exp - flt.mantbits < minexp THEN minexp
             ELSE v.exp - flt.mantbits, LAMBDA exp :
        \* mantbits, less for a denormal
        With(v.exp - exp, LAMBDA shift :
        With(IF shift >= 0 THEN v.d ELSE MulPow(v.d, 2, 0 - shift), LAMBDA den :
        With(DivMod(IF shift >= 0 THEN MulPow(v.n, 2, shift) ELSE v.n, den),
             LAMBDA qr :
        With(MulAdd(qr.r, 2, 0), LAMBDA twice :
        With(\/ BigLess(den, twice)
             \/ twice = den /\ qr.q # <<>> /\ qr.q[Len(qr.q)] % 2 = 1,
             LAMBDA up :
        With(IF up THEN MulAdd(qr.q, 1, 1) ELSE qr.q, LAMBDA mant :
        With(mant = MulPow(<<1>>, 2, flt.mantbits + 1), LAMBDA full :
            [mant |-> IF full THEN MulPow(<<1>>, 2, flt.mantbits) ELSE mant,
             exp  |-> IF full THEN exp + 1 ELSE exp,
             over |-> (IF full THEN exp + 1 ELSE exp) + flt.mantbits
                          > maxexp])))))))))

\* The value of the type flt nearest to n / d, with its sign: what atof
\* returns, the infinity and a range error beyond the largest value.
Nearest(neg, n, d, flt) ==
    With(floatBits(n, d, flt), LAMBDA b :
        IF b.over THEN [err |-> TRUE, f |-> Inf(neg)]
        ELSE IF b.mant = <<>> THEN [err |-> FALSE, f |-> Num(neg, <<>>, 0)]
        ELSE With(roundShortest(b.mant, b.exp, flt), LAMBDA s :
                 [err |-> FALSE, f |-> Num(neg, s.d, s.dp)]))

\* float64(f) for a float32 f: the same value, as a float64
float64(f) ==
    IF f.class # "num" \/ f.d = <<>> THEN f
    ELSE With(floatBits(f.d \o [i \in 1..(f.dp - Len(f.d)) |-> 0],
                        <<1>> \o [i \in 1..(Len(f.d) - f.dp) |-> 0],
                        float32info), LAMBDA b :
             Nearest(f.neg,
                     IF b.exp > 0 THEN MulPow(b.mant, 2, b.exp) ELSE b.mant,
                     IF b.exp < 0 THEN MulPow(<<1>>, 2, 0 - b.exp) ELSE <<1>>,
                     float64info).f)

-----------------------------------------------------------------------------
(* strconv.ParseFloat *)

DigitVal ==
    "0" :> 0 @@ "1" :> 1 @@ "2" :> 2 @@ "3" :> 3 @@ "4" :> 4 @@
    "5" :> 5 @@ "6" :> 6 @@ "7" :> 7 @@ "8" :> 8 @@ "9" :> 9

HexVal ==
    "a" :> 10 @@ "b" :> 11 @@ "c" :> 12 @@ "d" :> 13 @@ "e" :> 14 @@ "f" :> 15

DigitChar == <<"0", "1", "2", "3", "4", "5", "6", "7", "8", "9">>

\* the lower-case letter of an upper-case letter, any other character as it is
lower(c) ==
    With("A" :> "a" @@ "B" :> "b" @@ "C" :> "c" @@ "D" :> "d" @@ "E" :> "e" @@
         "F" :> "f" @@ "G" :> "g" @@ "H" :> "h" @@ "I" :> "i" @@ "J" :> "j" @@
         "K" :> "k" @@ "L" :> "l" @@ "M" :> "m" @@ "N" :> "n" @@ "O" :> "o" @@
         "P" :> "p" @@ "Q" :> "q" @@ "R" :> "r" @@ "S" :> "s" @@ "T" :> "t" @@
         "U" :> "u" @@ "V" :> "v" @@ "W" :> "w" @@ "X" :> "x" @@ "Y" :> "y" @@
         "Z" :> "z",
         LAMBDA ToLower : IF c \in DOMAIN ToLower THEN ToLower[c] ELSE c)

\* special: "nan", and "inf" or "infinity" behind an optional sign, in any
\* case, at the head of s; n is the number of characters read
special(s) ==
    LET \* how many characters of s from the position i on match the prefix
        RECURSIVE commonPrefixLenIgnoreCase(_, _)
        commonPrefixLenIgnoreCase(i, prefix) ==
            IF prefix = <<>> \/ i > Len(s) \/ lower(s[i]) # Head(prefix) THEN 0
            ELSE 1 + commonPrefixLenIgnoreCase(i + 1, Tail(prefix))
        No == [ok |-> FALSE, f |-> NaN, n |-> 0]
        signed == s[1] \in {"+", "-"}
        from == IF signed THEN 2 ELSE 1
    IN  IF s = <<>> THEN No
        ELSE IF signed \/ lower(s[1]) = "i"
        THEN With(commonPrefixLenIgnoreCase(from,
                      <<"i", "n", "f", "i", "n", "i", "t", "y">>), LAMBDA inf :
             With(IF 3 < inf /\ inf < 8 THEN 3 ELSE inf, LAMBDA n :
                 IF n = 3 \/ n = 8
                 THEN [ok |-> TRUE, f |-> Inf(s[1] = "-"), n |-> from - 1 + n]
                 ELSE No))
        ELSE IF commonPrefixLenIgnoreCase(1, <<"n", "a", "n">>) = 3
        THEN [ok |-> TRUE, f |-> NaN, n |-> 3]
        ELSE No

\* underscoreOK: an underscore stands between two digits, or between the
\* base prefix and a digit
underscoreOK(s) ==
    LET t == IF Len(s) >= 1 /\ s[1] \in {"+", "-"} THEN Tail(s) ELSE s
        prefix == Len(t) >= 2 /\ t[1] = "0" /\ lower(t[2]) \in {"b", "o", "x"}
        hex == prefix /\ lower(t[2]) = "x"
        \* saw is the last character seen: "0" a digit, "_" an underscore,
        \* "!" another character, "^" none
        RECURSIVE From(_, _)
        From(i, saw) ==
            IF i > Len(t) THEN saw # "_"
            ELSE IF t[i] \in DOMAIN DigitVal \/ (hex /\ lower(t[i]) \in DOMAIN HexVal)
            THEN From(i + 1, "0")
            ELSE IF t[i] = "_" THEN saw = "0" /\ From(i + 1, "_")
            ELSE saw # "_" /\ From(i + 1, "!")
    IN  IF prefix THEN From(3, "0") ELSE From(1, "^")

\* readFloat: the sign, the digits of the mantissa behind its leading zeros,
\* the position dp of the point behind them (in bits for a hexadecimal
\* mantissa, the exponent added) and the number i of characters read. The
\* mantissa is kept in full where the code keeps 19 digits and the fact
\* that more were dropped.
readFloat(s) ==
    LET Bad == [ok |-> FALSE, neg |-> FALSE, hex |-> FALSE, mantissa |-> <<>>,
                dp |-> 0, i |-> 0]
        signed == Len(s) >= 1 /\ s[1] \in {"+", "-"}
        i0 == IF signed THEN 2 ELSE 1
        hex == i0 + 2 <= Len(s) /\ s[i0] = "0" /\ lower(s[i0 + 1]) = "x"
        \* the loop over the mantissa, st.i the next position
        RECURSIVE Mantissa(_)
        Mantissa(st) ==
            IF st.i > Len(s) THEN st
            ELSE LET c == s[st.i]
                     next == [st EXCEPT !.i = @ + 1]
                 IN  IF c = "_" THEN Mantissa([next EXCEPT !.underscores = TRUE])
                     ELSE IF c = "."
                     THEN IF st.sawdot THEN st
                          ELSE Mantissa([next EXCEPT !.sawdot = TRUE, !.dp = st.nd])
                     ELSE IF c \in DOMAIN DigitVal
                     THEN IF c = "0" /\ st.nd = 0
                          THEN Mantissa([next EXCEPT !.sawdigits = TRUE,
                                                     !.dp = @ - 1])
                          ELSE Mantissa([next EXCEPT !.sawdigits = TRUE,
                                            !.nd = @ + 1,
                                            !.mantissa = Append(@, DigitVal[c])])
                     ELSE IF hex /\ lower(c) \in DOMAIN HexVal
                     THEN Mantissa([next EXCEPT !.sawdigits = TRUE,
                                       !.nd = @ + 1,
                                       !.mantissa = Append(@, HexVal[lower(c)])])
                     ELSE st
        \* the loop over the exponent, which stops counting at 10000
        RECURSIVE Exponent(_)
        Exponent(st) ==
            IF st.i > Len(s) THEN st
            ELSE LET c == s[st.i]
                     next == [st EXCEPT !.i = @ + 1]
                 IN  IF c = "_" THEN Exponent([next EXCEPT !.underscores = TRUE])
                     ELSE IF c \in DOMAIN DigitVal
                     THEN Exponent([next EXCEPT
                              !.e = IF @ < 10000 THEN @ * 10 + DigitVal[c] ELSE @])
                     ELSE st
    IN  With(Mantissa([i |-> IF hex THEN i0 + 2 ELSE i0, sawdot |-> FALSE,
                       sawdigits |-> FALSE, nd |-> 0, dp |-> 0,
                       mantissa |-> <<>>, underscores |-> FALSE]), LAMBDA m :
        With((IF m.sawdot THEN m.dp ELSE m.nd) * (IF hex THEN 4 ELSE 1),
             LAMBDA dp :
        With(m.i <= Len(s) /\ lower(s[m.i]) = (IF hex THEN "p" ELSE "e"),
             LAMBDA hasExp :
        With(m.i + 1 <= Len(s) /\ s[m.i + 1] \in {"+", "-"}, LAMBDA esigned :
        With(IF esigned THEN m.i + 2 ELSE m.i + 1, LAMBDA e0 :
        With(Exponent([i |-> e0, e |-> 0, underscores |-> m.underscores]),
             LAMBDA x :
        With(IF esigned /\ s[m.i + 1] = "-" THEN 0 - x.e ELSE x.e, LAMBDA e :
        With(IF hasExp THEN x.i ELSE m.i, LAMBDA end :
        With(IF hasExp THEN x.underscores ELSE m.underscores,
             LAMBDA underscores :
            IF s = <<>> \/ ~m.sawdigits THEN Bad
            ELSE IF hasExp /\ (e0 > Len(s) \/ s[e0] \notin DOMAIN DigitVal)
            THEN Bad
            ELSE IF hex /\ ~hasExp THEN Bad
            ELSE IF underscores /\ ~underscoreOK(SubSeq(s, 1, end - 1))
            THEN Bad
            ELSE [ok |-> TRUE, neg |-> signed /\ s[1] = "-", hex |-> hex,
                  mantissa |-> m.mantissa,
                  dp |-> IF hasExp THEN dp + e ELSE dp, i |-> end - 1])))))))))

\* atofHex: the value of the hexadecimal mantissa, r.mantissa * 2^(r.dp - 4 nd)
atofHex(r, flt) ==
    LET RECURSIVE Number(_)
        Number(i) ==
            IF i = 0 THEN <<>> ELSE MulAdd(Number(i - 1), 16, r.mantissa[i])
        exp == r.dp - 4 * Len(r.mantissa)
    IN  With(Number(Len(r.mantissa)), LAMBDA n :
            IF n = <<>> THEN [err |-> FALSE, f |-> Num(r.neg, <<>>, 0)]
            ELSE IF exp > 0 - flt.bias THEN [err |-> TRUE, f |-> Inf(r.neg)]
            ELSE IF r.dp < flt.bias - flt.mantbits
            THEN [err |-> FALSE, f |-> Num(r.neg, <<>>, 0)]
            ELSE Nearest(r.neg,
                         IF exp >= 0 THEN MulPow(n, 2, exp) ELSE n,
                         IF exp >= 0 THEN <<1>> ELSE MulPow(<<1>>, 2, 0 - exp),
                         flt))

\* the value of the decimal mantissa, 0.mantissa * 10^r.dp: a decimal of few
\* digits is the shortest decimal of the value it denotes, a longer one is
\* rounded (decimal.floatBits)
atofDecimal(r, flt) ==
    With(TrimRight(r.mantissa), LAMBDA digits :
    With(r.dp - Len(digits), LAMBDA exp :
        IF digits = <<>> THEN [err |-> FALSE, f |-> Num(r.neg, <<>>, 0)]
        ELSE IF r.dp > 310 THEN [err |-> TRUE, f |-> Inf(r.neg)]
        ELSE IF r.dp < 0 - 330 THEN [err |-> FALSE, f |-> Num(r.neg, <<>>, 0)]
        ELSE IF /\ Len(digits) <= flt.exact
                /\ r.dp <= flt.span /\ r.dp >= 0 - flt.span
        THEN [err |-> FALSE, f |-> Num(r.neg, digits, r.dp)]
        ELSE Nearest(r.neg,
                     digits \o [i \in 1..exp |-> 0],
                     <<1>> \o [i \in 1..(0 - exp) |-> 0],
                     flt)))

\* strconv.ParseFloat(s, bitSize): the value read, or a syntax error with
\* the value 0, or a range error with an infinity
ParseFloat(s, bitSize) ==
    LET flt == IF bitSize = 32 THEN float32info ELSE float64info
        SyntaxError == [err |-> TRUE, f |-> Num(FALSE, <<>>, 0)]
    IN  With(special(s), LAMBDA sp :
            IF sp.ok
            THEN IF sp.n = Len(s) THEN [err |-> FALSE, f |-> sp.f]
                 ELSE SyntaxError
            ELSE With(readFloat(s), LAMBDA r :
                     IF ~r.ok \/ r.i # Len(s) THEN SyntaxError
                     ELSE IF r.hex THEN atofHex(r, flt)
                     ELSE atofDecimal(r, flt)))

-----------------------------------------------------------------------------
(* fmt's %v *)

\* The decimal digits of n >= 0.
RECURSIVE FormatDigits(_)
FormatDigits(n) ==
    IF n < 10 THEN <<DigitChar[n + 1]>>
    ELSE FormatDigits(n \div 10) \o <<DigitChar[(n % 10) + 1]>>

\* %v of an int
FormatInt(n) == IF n < 0 THEN <<"-">> \o FormatDigits(0 - n) ELSE FormatDigits(n)

\* %v of a float64 or float32: strconv's format 'g' with the shortest digits,
\* which is %e for an exponent below -4 or not below eprec, 6 for the
\* shortest digits, and %f otherwise
FormatFloat(f) ==
    LET nd == Len(f.d)
        Digit(i) == IF 1 <= i /\ i <= nd THEN DigitChar[f.d[i] + 1] ELSE "0"
        sign == IF f.neg THEN <<"-">> ELSE <<>>
        exp == f.dp - 1
        eprec == 6
        abs == IF exp < 0 THEN 0 - exp ELSE exp
        fmtE == <<Digit(1)>>
                \o (IF nd > 1 THEN <<".">> \o [i \in 1..(nd - 1) |-> Digit(i + 1)]
                    ELSE <<>>)
                \o <<"e", IF exp < 0 THEN "-" ELSE "+">>
                \o (IF abs < 10 THEN <<"0">> ELSE <<>>) \o FormatDigits(abs)
        prec == IF nd - f.dp > 0 THEN nd - f.dp ELSE 0
        fmtF == (IF f.dp > 0 THEN [i \in 1..f.dp |-> Digit(i)] ELSE <<"0">>)
                \o (IF prec > 0 THEN <<".">> \o [i \in 1..prec |-> Digit(f.dp + i)]
                    ELSE <<>>)
    IN  IF f.class = "nan" THEN <<"N", "a", "N">>
        ELSE IF f.class = "inf"
        THEN (IF f.neg THEN <<"-">> ELSE <<"+">>) \o <<"I", "n", "f">>
        ELSE IF exp < 0 - 4 \/ exp >= eprec THEN sign \o fmtE
        ELSE sign \o fmtF

-----------------------------------------------------------------------------
(* The values given to AddMetric as interface{} *)

\* A constant of the program converted to float64 or float32: the nearest
\* value of the type.
Literal(s, bitSize) == ParseFloat(s, bitSize).f

\* an int, a float64, a float32 or a string
IntV(n) == [kind |-> "int", n |-> n, f |-> Num(FALSE, <<>>, 0), s |-> <<>>]
FloatV(f) == [kind |-> "float64", n |-> 0, f |-> f, s |-> <<>>]
Float32V(f) == [kind |-> "float32", n |-> 0, f |-> f, s |-> <<>>]
StrV(s) == [kind |-> "string", n |-> 0, f |-> Num(FALSE, <<>>, 0), s |-> s]

\* fmt.Sprintf("%v", v)
FormatV(v) ==
    CASE v.kind = "string" -> v.s
      [] v.kind = "int" -> FormatInt(v.n)
      [] OTHER -> FormatFloat(v.f)

i2f(v) ==
    CASE v.kind = "float32" -> [err |-> FALSE, f |-> float64(v.f)]
      [] v.kind = "float64" -> [err |-> FALSE, f |-> v.f]
      [] OTHER -> ParseFloat(FormatV(v), 64)

-----------------------------------------------------------------------------
(* Package strings *)

\* strings.TrimPrefix(s, prefix) for a one-character prefix
TrimPrefix(s, c) == IF Len(s) >= 1 /\ s[1] = c THEN Tail(s) ELSE s

\* strings.HasPrefix(s, prefix) for a one-character prefix
HasPrefix(s, c) == Len(s) >= 1 /\ s[1] = c

\* strings.ContainsRune(s, r)
ContainsRune(s, c) == \E i \in 1..Len(s) : s[i] = c

\* strings.Split(s, sep) for a one-character separator: the parts between
\* the separators, one more than there are separators.
RECURSIVE Split(_, _)
Split(s, c) ==
    IF ~ContainsRune(s, c) THEN <<s>>
    ELSE LET i == CHOOSE k \in 1..Len(s) :
                      s[k] = c /\ \A j \in 1..(k - 1) : s[j] # c
         IN  <<SubSeq(s, 1, i - 1)>> \o Split(SubSeq(s, i + 1, Len(s)), c)

-----------------------------------------------------------------------------
(* src/plugin.go: the Plugin *)

\* Version is inspected (ParseArgs trims its prefix) and held as the
\* sequence of its characters; Preamble and Description, which New leaves
\* out, are empty.
New(name, version) ==
    [status             |-> OK,
     messages           |-> <<>>,
     metrics            |-> <<>>,
     Name               |-> name,
     Version            |-> version,
     Preamble           |-> "",
     Description        |-> "",
     AllMetricsInOutput |-> FALSE,
     MessageSeparator   |-> ", "]

\* &checkMetric{}: the zero value of every field
ZeroMetric(value) ==
    [value |-> value, status |-> OK, uom |-> <<>>, warn |-> <<>>, critical |-> <<>>]

\* UpdateStatus that assigns the status given, whatever the current one.
UpdateStatusAssign(q, status) == [q EXCEPT !.status = status]

\* UpdateStatus that keeps the first status that is not OK.
UpdateStatusFirstWins(q, status) ==
    IF q.status = OK THEN [q EXCEPT !.status = status] ELSE q

UpdateStatus(q, status) ==
    IF status > q.status THEN [q EXCEPT !.status = status] ELSE q

\* AddMessage called with no format arguments: msg = fmt.Sprint(format)
\* AddMessage that puts the message in front of the others.
AddMessagePrepending(q, msg) == [q EXCEPT !.messages = <<msg>> \o @]

AddMessage(q, msg) == [q EXCEPT !.messages = Append(@, msg)]

\* AddResult that merges no status when the message sequence is not empty.
AddResultFirstOnly(q, code, msg) ==
    AddMessage(IF q.messages = <<>> THEN UpdateStatus(q, code) ELSE q, msg)

\* AddResult that takes the severity passed as the new status.
AddResultAssigning(q, code, msg) ==
    AddMessage([q EXCEPT !.status = code], msg)

AddResult(q, code, msg) == AddMessage(UpdateStatus(q, code), msg)

\* SetMessage without the reset of the messages.
SetMessageAppending(q, msg) == AddMessage(q, msg)

SetMessage(q, msg) == AddMessage([q EXCEPT !.messages = <<>>], msg)

-----------------------------------------------------------------------------
(* src/plugin.go: AddMetric *)

\* The name a metric is stored under: a name holding a space is wrapped in
\* single quotes unless it already starts with one.
\* The quoting applied to every name that holds a space, quoted or not.
DisplayNameAlwaysQuoted(name) ==
    IF ContainsRune(name, " ") THEN <<"'">> \o name \o <<"'">> ELSE name

DisplayName(name) ==
    IF ContainsRune(name, " ") /\ ~HasPrefix(name, "'")
    THEN <<"'">> \o name \o <<"'">>
    ELSE name

\* ThresholdBreached with the comparisons against the upper bounds made
\* non-strict.
ThresholdBreachedNonStrict(val, thresh) ==
    LET Bad == [err |-> TRUE, breached |-> FALSE]
        Decided(b) == [err |-> FALSE, breached |-> b]
    IN  CASE Len(thresh) = 1 ->
                LET tMax == ParseFloat(thresh[1], 64)
                IN  IF tMax.err THEN Bad
                    ELSE Decided(Less(val, Num(FALSE, <<>>, 0)) \/ ~Less(val, tMax.f))
          [] Len(thresh) = 2 ->
                IF thresh[1] = <<"~">>
                THEN LET tMax == ParseFloat(thresh[2], 64)
                     IN  IF tMax.err THEN Bad ELSE Decided(~Less(val, tMax.f))
                ELSE IF thresh[2] = <<>>
                THEN LET tMin == ParseFloat(thresh[1], 64)
                     IN  IF tMin.err THEN Bad ELSE Decided(Less(val, tMin.f))
                ELSE LET tMin == ParseFloat(thresh[1], 64)
                         tMax == ParseFloat(thresh[2], 64)
                     IN  IF tMin.err THEN Bad
                         ELSE IF tMax.err THEN Bad
                         ELSE IF Less(tMax.f, tMin.f) THEN Bad
                         ELSE Decided(Less(val, tMin.f) \/ ~Less(val, tMax.f))
          [] OTHER -> Bad

\* ThresholdBreached without the check that a closed range is not reversed.
ThresholdBreachedNoOrderCheck(val, thresh) ==
    LET Bad == [err |-> TRUE, breached |-> FALSE]
        Decided(b) == [err |-> FALSE, breached |-> b]
    IN  CASE Len(thresh) = 1 ->
                LET tMax == ParseFloat(thresh[1], 64)
                IN  IF tMax.err THEN Bad
                    ELSE Decided(Less(val, Num(FALSE, <<>>, 0)) \/ Less(tMax.f, val))
          [] Len(thresh) = 2 ->
                IF thresh[1] = <<"~">>
                THEN LET tMax == ParseFloat(thresh[2], 64)
                     IN  IF tMax.err THEN Bad ELSE Decided(Less(tMax.f, val))
                ELSE IF thresh[2] = <<>>
                THEN LET tMin == ParseFloat(thresh[1], 64)
                     IN  IF tMin.err THEN Bad ELSE Decided(Less(val, tMin.f))
                ELSE LET tMin == ParseFloat(thresh[1], 64)
                         tMax == ParseFloat(thresh[2], 64)
                     IN  IF tMin.err THEN Bad
                         ELSE IF tMax.err THEN Bad
                         ELSE Decided(Less(val, tMin.f) \/ Less(tMax.f, val))
          [] OTHER -> Bad

\* The switch on len(thresh): the raw breach decision of value val against the
\* parts of a threshold spec, or a format error.
ThresholdBreached(val, thresh) ==
    LET Bad == [err |-> TRUE, breached |-> FALSE]
        Decided(b) == [err |-> FALSE, breached |-> b]
    IN  CASE Len(thresh) = 1 ->
                With(ParseFloat(thresh[1], 64), LAMBDA tMax :
                    IF tMax.err THEN Bad
                    ELSE Decided(Less(val, Num(FALSE, <<>>, 0))
                                     \/ Less(tMax.f, val)))
          [] Len(thresh) = 2 ->
                IF thresh[1] = <<"~">>
                THEN With(ParseFloat(thresh[2], 64), LAMBDA tMax :
                         IF tMax.err THEN Bad ELSE Decided(Less(tMax.f, val)))
                ELSE IF thresh[2] = <<>>
                THEN With(ParseFloat(thresh[1], 64), LAMBDA tMin :
                         IF tMin.err THEN Bad ELSE Decided(Less(val, tMin.f)))
                ELSE With(ParseFloat(thresh[1], 64), LAMBDA tMin :
                         IF tMin.err THEN Bad
                         ELSE With(ParseFloat(thresh[2], 64), LAMBDA tMax :
                                  IF tMax.err THEN Bad
                                  ELSE IF Less(tMax.f, tMin.f) THEN Bad
                                  ELSE Decided(Less(val, tMin.f)
                                                   \/ Less(tMax.f, val))))
          [] OTHER -> Bad

\* ThresholdBreached declared before use by the mutant below is the
\* definition above; EvalThreshold with the '@' prefix stripped but the
\* decision never flipped.
EvalThresholdNoFlip(val, a) ==
    LET arg    == TrimPrefix(a, "@")
        invert == a # arg
        raw    == ThresholdBreached(val, Split(arg, ":"))
    IN  [err |-> raw.err, invert |-> invert, breached |-> raw.breached]

\* One non-empty threshold argument a evaluated against val: the '@' prefix
\* is stripped, the rest split on ':' and decided, and the decision flipped
\* when the prefix was there.
EvalThreshold(val, a) ==
    LET arg    == TrimPrefix(a, "@")
        invert == a # arg
    IN  With(ThresholdBreached(val, Split(arg, ":")), LAMBDA raw :
            [err      |-> raw.err,
             invert   |-> invert,
             breached |-> IF invert THEN ~raw.breached ELSE raw.breached])

\* AlertMessage with the threshold printed as parsed, its '@' stripped.
AlertMessageStripped(name, value, uom, invert, a) ==
    Str(name) \o " is " \o Str(FormatV(value)) \o Str(uom)
        \o (IF invert THEN " (inside " ELSE " (outside ")
        \o Str(TrimPrefix(a, "@")) \o ")"

\* The alert message of a breached threshold a.
AlertMessage(name, value, uom, invert, a) ==
    Str(name) \o " is " \o Str(FormatV(value)) \o Str(uom)
        \o (IF invert THEN " (inside " ELSE " (outside ") \o Str(a) \o ")"

\* ThresholdStep in which a threshold that is not breached resets the status
\* and the alert message of the metric.
ThresholdStepLastWins(acc, i, a, name, value, val) ==
    IF acc.err # Nil \/ Len(a) = 0 THEN acc
    ELSE LET thresholdName == IF i = 0 THEN "warning" ELSE "critical"
             metric == IF i = 0 THEN [acc.metric EXCEPT !.warn = a]
                       ELSE [acc.metric EXCEPT !.critical = a]
             t == EvalThreshold(val, a)
         IN  IF t.err
             THEN [acc EXCEPT !.metric = metric,
                              !.err = "Invalid format of " \o thresholdName
                                      \o " threshold " \o Str(name) \o ": " \o Str(a)]
             ELSE IF t.breached
             THEN [err          |-> Nil,
                   metric       |-> [metric EXCEPT !.status = i + 1],
                   alertMessage |-> AlertMessage(name, value, metric.uom, t.invert, a)]
             ELSE [err          |-> Nil,
                   metric       |-> [metric EXCEPT !.status = OK],
                   alertMessage |-> ""]

\* The body of the loop over args[1:] for index i (0 warning, 1 critical) and
\* argument a. acc holds the metric being built, the alert message so far
\* and the error the loop has returned with, if any.
ThresholdStep(acc, i, a, name, value, val) ==
    IF acc.err # Nil \/ Len(a) = 0 THEN acc
    ELSE LET thresholdName == IF i = 0 THEN "warning" ELSE "critical"
             metric == IF i = 0 THEN [acc.metric EXCEPT !.warn = a]
                       ELSE [acc.metric EXCEPT !.critical = a]
         IN  With(EvalThreshold(val, a), LAMBDA t :
                 IF t.err
                 THEN [acc EXCEPT !.metric = metric,
                                  !.err = "Invalid format of " \o thresholdName
                                          \o " threshold " \o Str(name)
                                          \o ": " \o Str(a)]
                 ELSE IF t.breached
                 THEN [err          |-> Nil,
                       metric       |-> [metric EXCEPT !.status = i + 1],
                       alertMessage |-> AlertMessage(name, value, metric.uom,
                                                     t.invert, a)]
                 ELSE [acc EXCEPT !.metric = metric])

\* for i, a := range args[1:]
RECURSIVE ThresholdLoop(_, _, _, _, _, _)
ThresholdLoop(acc, i, rest, name, value, val) ==
    IF rest = <<>> THEN acc
    ELSE ThresholdLoop(ThresholdStep(acc, i, Head(rest), name, value, val),
                       i + 1, Tail(rest), name, value, val)

\* StoreMetric that adds the plain message whatever AllMetricsInOutput is.
StoreMetricAlwaysTold(q, name, value, metric, alertMessage) ==
    LET told == IF Len(alertMessage) > 0
                THEN AddMessage(q, alertMessage)
                ELSE AddMessage(q, Str(name) \o " is " \o Str(FormatV(value))
                                       \o Str(metric.uom))
        stored == [told EXCEPT !.metrics = (name :> metric) @@ @]
    IN  UpdateStatus(stored, metric.status)

\* The end of a call that returns no error: the alert message, or with
\* AllMetricsInOutput the plain one, is added, the metric stored under name
\* and its status merged into the Plugin's.
\* StoreMetric that stores the metric and leaves the Plugin's status alone.
StoreMetricStatusKept(q, name, value, metric, alertMessage) ==
    LET told == IF Len(alertMessage) > 0
                THEN AddMessage(q, alertMessage)
                ELSE IF q.AllMetricsInOutput
                THEN AddMessage(q, Str(name) \o " is " \o Str(FormatV(value))
                                       \o Str(metric.uom))
                ELSE q
    IN  [told EXCEPT !.metrics = (name :> metric) @@ @]

StoreMetric(q, name, value, metric, alertMessage) ==
    LET told == IF Len(alertMessage) > 0
                THEN AddMessage(q, alertMessage)
                ELSE IF q.AllMetricsInOutput
                THEN AddMessage(q, Str(name) \o " is " \o Str(FormatV(value))
                                       \o Str(metric.uom))
                ELSE q
        stored == [told EXCEPT !.metrics = (name :> metric) @@ @]
    IN  UpdateStatus(stored, metric.status)

\* Thresholds that reads the first three arguments and ignores the others.
ThresholdsExtraIgnored(name, value, val, args) ==
    LET argsCount == Len(args)
        metric == [ZeroMetric(value) EXCEPT
                      !.uom = IF argsCount >= 1 THEN args[1] ELSE <<>>]
        start  == [err |-> Nil, metric |-> metric, alertMessage |-> ""]
    IN  IF argsCount >= 2
        THEN ThresholdLoop(start, 0, SubSeq(args, 2, IF argsCount > 3 THEN 3 ELSE argsCount),
                           name, value, val)
        ELSE start

\* The threshold arguments evaluated, when there are any: the metric built,
\* its alert message and the error returned, if any.
Thresholds(name, value, val, args) ==
    LET argsCount == Len(args)
        metric == [ZeroMetric(value) EXCEPT
                      !.uom = IF argsCount >= 1 THEN args[1] ELSE <<>>]
        start  == [err |-> Nil, metric |-> metric, alertMessage |-> ""]
    IN  IF argsCount = 2 \/ argsCount = 3
        THEN ThresholdLoop(start, 0, Tail(args), name, value, val)
        ELSE IF argsCount > 3
        THEN [start EXCEPT !.err = "Too many arguments"]
        ELSE start

\* AddMetric that records the status of a breached threshold although a later
\* threshold is malformed.
AddMetricStatusOnError(q, rawName, value, args) ==
    LET name == DisplayName(rawName)
        val  == i2f(value)
        loop == Thresholds(name, value, val.f, args)
    IN  IF name \in DOMAIN q.metrics
        THEN [p |-> q, err |-> "Duplicated metric " \o Str(name)]
        ELSE IF val.err
        THEN [p |-> q,
              err |-> "Invalid value of " \o Str(name) \o ": " \o Str(FormatV(value))]
        ELSE IF loop.err # Nil
        THEN [p |-> UpdateStatus(q, loop.metric.status), err |-> loop.err]
        ELSE [p |-> StoreMetric(q, name, value, loop.metric, loop.alertMessage),
              err |-> Nil]

\* AddMetric without the check for a name already registered.
AddMetricNoDuplicateCheck(q, rawName, value, args) ==
    LET name == DisplayName(rawName)
        val  == i2f(value)
        loop == Thresholds(name, value, val.f, args)
    IN  IF val.err
        THEN [p |-> q,
              err |-> "Invalid value of " \o Str(name) \o ": " \o Str(FormatV(value))]
        ELSE IF loop.err # Nil
        THEN [p |-> q, err |-> loop.err]
        ELSE [p |-> StoreMetric(q, name, value, loop.metric, loop.alertMessage),
              err |-> Nil]

\* AddMetric that registers the metric before it converts the value.
AddMetricStoreFirst(q, rawName, value, args) ==
    LET name == DisplayName(rawName)
        val  == i2f(value)
        loop == Thresholds(name, value, val.f, args)
    IN  IF name \in DOMAIN q.metrics
        THEN [p |-> q, err |-> "Duplicated metric " \o Str(name)]
        ELSE IF val.err
        THEN [p |-> [q EXCEPT !.metrics = (name :> ZeroMetric(value)) @@ @],
              err |-> "Invalid value of " \o Str(name) \o ": " \o Str(FormatV(value))]
        ELSE IF loop.err # Nil
        THEN [p |-> q, err |-> loop.err]
        ELSE [p |-> StoreMetric(q, name, value, loop.metric, loop.alertMessage),
              err |-> Nil]

\* AddMetric(name, value, args...) on Plugin q: the Plugin after the call and
\* the error returned.
\* AddMetric that converts the value before it looks the name up.
AddMetricValueFirst(q, rawName, value, args) ==
    LET name == DisplayName(rawName)
        val  == i2f(value)
        loop == Thresholds(name, value, val.f, args)
    IN  IF val.err
        THEN [p |-> q,
              err |-> "Invalid value of " \o Str(name) \o ": " \o Str(FormatV(value))]
        ELSE IF name \in DOMAIN q.metrics
        THEN [p |-> q, err |-> "Duplicated metric " \o Str(name)]
        ELSE IF loop.err # Nil
        THEN [p |-> q, err |-> loop.err]
        ELSE [p |-> StoreMetric(q, name, value, loop.metric, loop.alertMessage),
              err |-> Nil]

\* AddMetric that looks up the name as it was passed, before the quoting.
AddMetricRawLookup(q, rawName, value, args) ==
    LET name == DisplayName(rawName)
        val  == i2f(value)
        loop == Thresholds(name, value, val.f, args)
    IN  IF rawName \in DOMAIN q.metrics
        THEN [p |-> q, err |-> "Duplicated metric " \o Str(name)]
        ELSE IF val.err
        THEN [p |-> q,
              err |-> "Invalid value of " \o Str(name) \o ": " \o Str(FormatV(value))]
        ELSE IF loop.err # Nil
        THEN [p |-> q, err |-> loop.err]
        ELSE [p |-> StoreMetric(q, name, value, loop.metric, loop.alertMessage),
              err |-> Nil]

AddMetric(q, rawName, value, args) ==
    LET name == DisplayName(rawName)
    IN  IF name \in DOMAIN q.metrics
        THEN [p |-> q, err |-> "Duplicated metric " \o Str(name)]
        ELSE With(i2f(value), LAMBDA val :
                 IF val.err
                 THEN [p |-> q,
                       err |-> "Invalid value of " \o Str(name) \o ": "
                               \o Str(FormatV(value))]
                 ELSE With(Thresholds(name, value, val.f, args), LAMBDA loop :
                          IF loop.err # Nil
                          THEN [p |-> q, err |-> loop.err]
                          ELSE [p   |-> StoreMetric(q, name, value, loop.metric,
                                                    loop.alertMessage),
                                err |-> Nil]))

-----------------------------------------------------------------------------
(* src/plugin.go: the output of Final *)

\* The byte of each character metric names are made of.
CharCode ==
    " " :> 32 @@ "'" :> 39 @@ "1" :> 49 @@ "2" :> 50 @@
    "a" :> 97 @@ "b" :> 98 @@ "m" :> 109

\* s < t for Go strings: byte by byte, a proper prefix first.
RECURSIVE StringLess(_, _)
StringLess(s, t) ==
    IF t = <<>> THEN FALSE
    ELSE IF s = <<>> THEN TRUE
    ELSE IF Head(s) # Head(t) THEN CharCode[Head(s)] < CharCode[Head(t)]
    ELSE StringLess(Tail(s), Tail(t))

\* sort.Strings that leaves the greatest key first.
RECURSIVE SortStringsDescending(_)
SortStringsDescending(keys) ==
    IF keys = {} THEN <<>>
    ELSE LET first == CHOOSE k \in keys :
                          \A other \in keys \ {k} : StringLess(other, k)
         IN  <<first>> \o SortStringsDescending(keys \ {first})

\* sort.Strings of the keys of the metrics
RECURSIVE SortStrings(_)
SortStrings(keys) ==
    IF keys = {} THEN <<>>
    ELSE LET first == CHOOSE k \in keys :
                          \A other \in keys \ {k} : StringLess(k, other)
         IN  <<first>> \o SortStrings(keys \ {first})

\* strings.Join(elems, sep)
RECURSIVE Join(_, _)
Join(elems, sep) ==
    IF elems = <<>> THEN ""
    ELSE IF Len(elems) = 1 THEN elems[1]
    ELSE elems[1] \o sep \o Join(Tail(elems), sep)

\* " %s=%v%s;%s;%s;;" for the metric registered under k
MetricText(q, k) ==
    " " \o Str(k) \o "=" \o Str(FormatV(q.metrics[k].value))
        \o Str(q.metrics[k].uom) \o ";" \o Str(q.metrics[k].warn) \o ";"
        \o Str(q.metrics[k].critical) \o ";;"

RECURSIVE MetricsText(_, _)
MetricsText(q, sorted) ==
    IF sorted = <<>> THEN ""
    ELSE MetricText(q, Head(sorted)) \o MetricsText(q, Tail(sorted))

\* Final that writes the space after the colon whether or not there is a
\* message.
FinalOutputAlwaysSpace(q) ==
    StatusString(q.status) \o ": "
        \o Join(q.messages, q.MessageSeparator)
        \o (IF DOMAIN q.metrics # {}
            THEN " |" \o MetricsText(q, SortStrings(DOMAIN q.metrics)) ELSE "")
        \o "\n"

\* What Final writes for Plugin q when there is no panic to recover.
FinalOutput(q) ==
    StatusString(q.status) \o ":"
        \o (IF Len(q.messages) > 0
            THEN " " \o Join(q.messages, q.MessageSeparator) ELSE "")
        \o (IF DOMAIN q.metrics # {}
            THEN " |" \o MetricsText(q, SortStrings(DOMAIN q.metrics)) ELSE "")
        \o "\n"

-----------------------------------------------------------------------------
(* src/plugin.go: Final and the exit shortcuts *)

\* Final and exit work on the Plugin p, the lines written to pOutputHandle
\* (one line for the Fprint calls of one execution of Final) and the codes
\* passed to pOsExit: w = [p, output, exits].
World(q, r) == [p |-> q, output |-> r.output, exits |-> r.exits]

\* pOsExit(code): the hook is handed the status.
pOsExit(w, code) == [w EXCEPT !.exits = Append(@, code)]

\* The Fprint calls of Final on pOutputHandle.
Fprint(w, text) == [w EXCEPT !.output = Append(@, text)]

RECURSIVE Final(_, _)
RECURSIVE exit(_, _, _)

ExitOK(w, msg) == exit(w, OK, msg)

ExitUnknown(w, msg) == exit(w, UNKNOWN, msg)

ExitWarning(w, msg) == exit(w, WARNING, msg)

ExitCritical(w, msg) == exit(w, CRITICAL, msg)

\* Final that empties the messages once it has written them.
FinalConsuming(w, r) ==
    IF r # Nil
    THEN ExitCritical(w, w.p.Name \o " panic: " \o r)
    ELSE pOsExit(Fprint([w EXCEPT !.p.messages = <<>>], FinalOutput(w.p)),
                 w.p.status)

\* Final that merges CRITICAL into the status when it recovers a panic.
FinalRecoverMerging(w, r) ==
    IF r # Nil
    THEN exit(w, IF w.p.status > CRITICAL THEN w.p.status ELSE CRITICAL,
              w.p.Name \o " panic: " \o r)
    ELSE pOsExit(Fprint(w, FinalOutput(w.p)), w.p.status)

\* Final without the return that follows ExitCritical: having recovered a
\* panic it goes on to write the line again.
FinalNoReturn(w, r) ==
    LET v == IF r # Nil THEN ExitCritical(w, w.p.Name \o " panic: " \o r) ELSE w
    IN  pOsExit(Fprint(v, FinalOutput(v.p)), v.p.status)

\* Final with r the value recover() returns: Nil when no panic is in flight
\* or when Final is not the deferred call itself.
Final(w, r) ==
    IF r # Nil
    THEN ExitCritical(w, w.p.Name \o " panic: " \o r)
    ELSE pOsExit(Fprint(w, FinalOutput(w.p)), w.p.status)

\* exit that merges the code into the status by worst-wins.
exitMerging(w, code, msg) ==
    LET coded    == UpdateStatus(w.p, code)
        told     == SetMessage(coded, msg)
        emptied  == [told EXCEPT !.metrics = <<>>]
    IN  Final([w EXCEPT !.p = emptied], Nil)

exit(w, code, msg) ==
    LET coded    == [w.p EXCEPT !.status = code]
        told     == SetMessage(coded, msg)
        emptied  == [told EXCEPT !.metrics = <<>>]
    IN  Final([w EXCEPT !.p = emptied], Nil)

-----------------------------------------------------------------------------
(* src/plugin.go: ParseArgs *)

\* What ParseArgs writes to pOutputHandle when -h is among the arguments:
\* the name and the version without its leading v, the Preamble if there is
\* one, the help the parser of go-flags writes for the options (usage), and
\* the Description if there is one, each followed by a newline.
HelpOutput(q, usage) ==
    q.Name \o " v" \o Str(TrimPrefix(q.Version, "v")) \o "\n"
        \o (IF q.Preamble # "" THEN q.Preamble \o "\n" ELSE "")
        \o usage \o "\n"
        \o (IF q.Description # "" THEN q.Description \o "\n" ELSE "")

\* ParseArgs once go-flags has parsed pArgs into the options of the caller:
\* help is builtin.Help, set when -h or --help is among the arguments. The
\* entry of output is what the Fprintf and Fprintln calls of one execution
\* write. Status, messages and metrics are not touched; the error of the
\* parser is what the call returns.
ParseArgs(w, help, usage) ==
    IF help THEN pOsExit(Fprint(w, HelpOutput(w.p, usage)), UNKNOWN) ELSE w

-----------------------------------------------------------------------------
(* The calls of a check run *)

\* The name and the version the tests give their Plugin.
PluginName == "check_plugin"

PluginVersion == <<"v", "1", ".", "0">>

\* pOsExit is os.Exit unless a test has put a function in its place that
\* records the code and returns.
Hooks == {"os.Exit", "record"}

\* A run that has made no call yet: Final is not deferred, nothing is
\* written.
NewRun(hook) ==
    [hook |-> hook, deferred |-> FALSE, phase |-> "running", fault |-> Nil,
     output |-> <<>>, exits |-> <<>>]

\* The caller is ready to make its next call; the fields are the arguments a
\* call fills in.
Ready ==
    [op |-> "ready", name |-> <<>>, value |-> IntV(0), args |-> <<>>,
     code |-> OK, msg |-> "", flag |-> FALSE]

Init ==
    /\ p = New(PluginName, PluginVersion)
    /\ pre = New(PluginName, PluginVersion)
    /\ call = Ready
    /\ ret = Nil
    /\ passed = {}
    /\ run = NewRun("record")

CallAddMetric(name, value, args) ==
    \E r \in {AddMetric(p, name, value, args)} :
        /\ p' = r.p
        /\ pre' = p
        /\ call' = [Ready EXCEPT !.op = "AddMetric", !.name = name,
                                 !.value = value, !.args = args]
        /\ ret' = r.err
        /\ UNCHANGED <<passed, run>>

CallAddMessage(msg) ==
    /\ Len(p.messages) < MaxMessages
    /\ p' = AddMessage(p, msg)
    /\ pre' = p
    /\ call' = [Ready EXCEPT !.op = "AddMessage", !.msg = msg]
    /\ ret' = Nil
    /\ UNCHANGED <<passed, run>>

AddResultStep(code, msg) ==
    /\ p' = AddResult(p, code, msg)
    /\ pre' = p
    /\ call' = [Ready EXCEPT !.op = "AddResult", !.code = code, !.msg = msg]
    /\ ret' = Nil

CallAddResult(code, msg) ==
    /\ Len(p.messages) < MaxMessages
    /\ AddResultStep(code, msg)
    /\ UNCHANGED <<passed, run>>

CallUpdateStatus(status) ==
    /\ p' = UpdateStatus(p, status)
    /\ pre' = p
    /\ call' = [Ready EXCEPT !.op = "UpdateStatus", !.code = status]
    /\ ret' = Nil
    /\ UNCHANGED <<passed, run>>

CallSetMessage(msg) ==
    /\ p' = SetMessage(p, msg)
    /\ pre' = p
    /\ call' = [Ready EXCEPT !.op = "SetMessage", !.msg = msg]
    /\ ret' = Nil
    /\ UNCHANGED <<passed, run>>

\* check.AllMetricsInOutput = flag
SetAllMetricsInOutput(flag) ==
    /\ p.AllMetricsInOutput # flag
    /\ p' = [p EXCEPT !.AllMetricsInOutput = flag]
    /\ pre' = p
    /\ call' = [Ready EXCEPT !.op = "AllMetricsInOutput", !.flag = flag]
    /\ ret' = Nil
    /\ UNCHANGED <<passed, run>>

\* The call has returned and the caller goes on to its next statement.
Proceed ==
    /\ call.op # "ready"
    /\ run.phase = "running"
    /\ pre' = p
    /\ call' = Ready
    /\ ret' = Nil
    /\ UNCHANGED <<p, passed, run>>

-----------------------------------------------------------------------------
(* Spec: check runs over a small set of calls *)

Names == {<<"m", "1">>, <<"a", " ", "b">>}

\* An int and a float64 on either side of the bound 2, and a string that is
\* no number.
Values == {IntV(1), FloatV(Literal(<<"2", ".", "5">>, 64)), StrV(<<"c">>)}

\* The optional arguments of AddMetric: none, a unit, a warning threshold,
\* both thresholds (plain and inverted, one or both breached, the critical
\* one malformed), a malformed warning threshold, and one and two arguments
\* too many.
ArgLists ==
    {<<>>,
     <<<<"s">>>>,
     <<<<"s">>, <<"2">>>>,
     <<<<"s">>, <<"2">>, <<"@", "2">>>>,
     <<<<"s">>, <<"@", "2">>, <<"2">>>>,
     <<<<"s">>, <<"2">>, <<"1", ":", "2">>>>,
     <<<<"s">>, <<"2">>, <<"2", ":", "1">>>>,
     <<<<"s">>, <<"2", ":", "1">>>>,
     <<<<"s">>, <<"2">>, <<"2">>, <<"2">>>>,
     <<<<"s">>, <<"2">>, <<"2">>, <<"2">>, <<"2">>>>}

Texts == {"up"}

\* The calls the caller makes when it is ready for its next one.
DoAddMetric ==
    /\ call.op = "ready"
    /\ \E name \in Names, value \in Values, args \in ArgLists :
           CallAddMetric(name, value, args)

DoAddMessage ==
    /\ call.op = "ready"
    /\ \E msg \in Texts : CallAddMessage(msg)

DoAddResult ==
    /\ call.op = "ready"
    /\ \E code \in Statuses, msg \in Texts : CallAddResult(code, msg)

DoUpdateStatus ==
    /\ call.op = "ready"
    /\ \E status \in Statuses : CallUpdateStatus(status)

DoSetMessage ==
    /\ call.op = "ready"
    /\ \E msg \in Texts : CallSetMessage(msg)

DoSetAllMetricsInOutput ==
    /\ call.op = "ready"
    /\ \E flag \in BOOLEAN : SetAllMetricsInOutput(flag)

Next ==
    \/ DoAddMetric
    \/ DoAddMessage
    \/ DoAddResult
    \/ DoUpdateStatus
    \/ DoSetMessage
    \/ DoSetAllMetricsInOutput
    \/ Proceed

Spec == Init /\ [][Next]_vars

-----------------------------------------------------------------------------
(* SpecFinal: calls on a Plugin under the recording hook, then Final called *)
(* directly, up to MaxFinals times on the same Plugin.                      *)

\* What the run is left with once Final or an exit shortcut has come back
\* with w: os.Exit ends the process, the recording hook returns.
Landed(r, w, phase) ==
    [r EXCEPT !.output = w.output, !.exits = w.exits,
              !.phase = IF r.hook = "os.Exit" THEN "exited" ELSE phase]

\* check.Final() called as a statement: recover() returns nil.
CallFinal ==
    /\ call.op = "ready"
    /\ run.phase = "running"
    /\ Len(run.output) < MaxFinals
    /\ LET w == Final(World(p, run), Nil)
       IN  /\ p' = w.p
           /\ run' = Landed(run, w, "running")
    /\ pre' = p
    /\ call' = [Ready EXCEPT !.op = "Final"]
    /\ ret' = Nil
    /\ UNCHANGED passed

\* check.MessageSeparator = sep
SetMessageSeparator(sep) ==
    /\ call.op = "ready"
    /\ p.MessageSeparator # sep
    /\ p' = [p EXCEPT !.MessageSeparator = sep]
    /\ pre' = p
    /\ call' = [Ready EXCEPT !.op = "MessageSeparator", !.msg = sep]
    /\ ret' = Nil
    /\ UNCHANGED <<passed, run>>

\* Names of which one is a prefix of another and one is stored quoted.
FinalNames == {<<"m">>, <<"m", "1">>, <<"a", " ", "b">>}

\* No optional argument; a unit with both thresholds; an empty unit and an
\* empty warning threshold before the critical one.
FinalArgLists ==
    {<<>>,
     <<<<"s">>, <<"2">>, <<"@", "2">>>>,
     <<<<>>, <<>>, <<"2">>>>}

Separators == {", ", "; "}

\* The calls made before the first Final.
FinalAddMetric ==
    /\ call.op = "ready"
    /\ run.output = <<>>
    /\ \E name \in FinalNames,
             value \in {IntV(1), FloatV(Literal(<<"2", ".", "5">>, 64))},
             args \in FinalArgLists :
           CallAddMetric(name, value, args)

FinalAddMessage ==
    /\ call.op = "ready"
    /\ run.output = <<>>
    /\ \E msg \in Texts : CallAddMessage(msg)

FinalUpdateStatus ==
    /\ call.op = "ready"
    /\ run.output = <<>>
    /\ \E status \in Statuses : CallUpdateStatus(status)

FinalSetSeparator ==
    /\ run.output = <<>>
    /\ \E sep \in Separators : SetMessageSeparator(sep)

NextFinal ==
    \/ FinalAddMetric
    \/ FinalAddMessage
    \/ FinalUpdateStatus
    \/ FinalSetSeparator
    \/ CallFinal
    \/ Proceed

SpecFinal == Init /\ [][NextFinal]_vars

-----------------------------------------------------------------------------
(* SpecRun: the function that owns the Plugin, from New to its end: it may  *)
(* set the help texts, defer Final, parse the arguments, make calls, call   *)
(* an exit shortcut, panic, or return.                                      *)

PluginNames == {PluginName, "check_x"}

InitRun ==
    /\ \E name \in PluginNames :
           \* a version with the leading v and one without
           LET version == IF name = PluginName THEN PluginVersion ELSE <<"2">>
           IN  p = New(name, version) /\ pre = New(name, version)
    /\ call = Ready
    /\ ret = Nil
    /\ passed = {}
    /\ \E hook \in Hooks : run = NewRun(hook)

\* defer check.Final()
DeferFinal ==
    /\ call.op = "ready"
    /\ run.phase = "running"
    /\ ~run.deferred
    /\ run' = [run EXCEPT !.deferred = TRUE]
    /\ UNCHANGED <<p, pre, call, ret, passed>>

\* check.ExitOK(msg), check.ExitWarning(msg), check.ExitCritical(msg) or
\* check.ExitUnknown(msg): under os.Exit the process ends in the hook, under
\* the recording hook the call returns to the function.
CallExit(code, msg) ==
    /\ call.op = "ready"
    /\ run.phase = "running"
    /\ Len(run.output) < MaxFinals
    /\ LET v == World(p, run)
           w == CASE code = OK       -> ExitOK(v, msg)
                  [] code = WARNING  -> ExitWarning(v, msg)
                  [] code = CRITICAL -> ExitCritical(v, msg)
                  [] code = UNKNOWN  -> ExitUnknown(v, msg)
       IN  /\ p' = w.p
           /\ run' = Landed(run, w, "running")
    /\ pre' = p
    /\ call' = [Ready EXCEPT !.op = "Exit", !.code = code, !.msg = msg]
    /\ ret' = Nil
    /\ UNCHANGED passed

\* check.Preamble = text, with the text of the tests, before the first call
\* that changes the Plugin or writes
SetPreamble ==
    /\ call.op = "ready"
    /\ run.phase = "running"
    /\ p = [New(p.Name, p.Version) EXCEPT !.Description = p.Description]
    /\ run.output = <<>>
    /\ \E text \in {"Test output"} :
           /\ p' = [p EXCEPT !.Preamble = text]
           /\ call' = [Ready EXCEPT !.op = "Preamble", !.msg = text]
    /\ pre' = p
    /\ ret' = Nil
    /\ UNCHANGED <<passed, run>>

\* check.Description = text, with the text of the tests, before the first
\* call that changes the Plugin or writes
SetDescription ==
    /\ call.op = "ready"
    /\ run.phase = "running"
    /\ p = [New(p.Name, p.Version) EXCEPT !.Preamble = p.Preamble]
    /\ run.output = <<>>
    /\ \E text \in {"Description:\n123"} :
           /\ p' = [p EXCEPT !.Description = text]
           /\ call' = [Ready EXCEPT !.op = "Description", !.msg = text]
    /\ pre' = p
    /\ ret' = Nil
    /\ UNCHANGED <<passed, run>>

\* check.ParseArgs(&opts): with -h among the arguments it writes the help
\* and hands UNKNOWN to the hook, which ends the process (os.Exit) or
\* returns (the recording hook); the call then returns the error of the
\* parser.
CallParseArgs(help, usage, err) ==
    /\ call.op = "ready"
    /\ run.phase = "running"
    /\ help => Len(run.output) < MaxFinals
    /\ LET w == ParseArgs(World(p, run), help, usage)
       IN  /\ p' = w.p
           /\ run' = IF help THEN Landed(run, w, "running") ELSE run
    /\ pre' = p
    /\ call' = [Ready EXCEPT !.op = "ParseArgs", !.flag = help]
    /\ ret' = IF help /\ run.hook = "os.Exit" THEN Nil ELSE err
    /\ UNCHANGED passed

\* panic(r) in the function
Panic(r) ==
    /\ call.op = "ready"
    /\ run.phase = "running"
    /\ run' = [run EXCEPT !.phase = "panicking", !.fault = r]
    /\ UNCHANGED <<p, pre, call, ret, passed>>

\* The function reaches its end.
Return ==
    /\ call.op = "ready"
    /\ run.phase = "running"
    /\ run' = [run EXCEPT !.phase = "returning"]
    /\ UNCHANGED <<p, pre, call, ret, passed>>

\* The deferred Final runs as the function unwinds: recover() returns the
\* panic in flight, or nil on a plain return. Under the recording hook the
\* function then returns to its caller.
DeferredFinal ==
    /\ run.phase \in {"panicking", "returning"}
    /\ run.deferred
    /\ LET w == Final(World(p, run), run.fault)
       IN  /\ p' = w.p
           /\ run' = [Landed(run, w, "returned") EXCEPT !.fault = Nil]
    /\ pre' = p
    /\ call' = [Ready EXCEPT !.op = "deferred Final", !.msg = run.fault]
    /\ ret' = Nil
    /\ UNCHANGED passed

\* Nothing is deferred: a return ends the function, a panic ends the process
\* in the Go runtime, and the library writes nothing.
Unwind ==
    /\ run.phase \in {"panicking", "returning"}
    /\ ~run.deferred
    /\ run' = [run EXCEPT !.phase = IF run.phase = "panicking"
                                     THEN "crashed" ELSE "returned"]
    /\ UNCHANGED <<p, pre, call, ret, passed>>

RunAddMetric ==
    /\ call.op = "ready"
    /\ run.phase = "running"
    /\ \E name \in {<<"m", "1">>}, value \in {IntV(1)},
             args \in {<<>>, <<<<"s">>, <<"2">>, <<"@", "2">>>>} :
           CallAddMetric(name, value, args)

RunAddResult ==
    /\ call.op = "ready"
    /\ run.phase = "running"
    /\ \E code \in Statuses, msg \in Texts : CallAddResult(code, msg)

RunExit ==
    \E code \in Statuses, msg \in {"", "down"} : CallExit(code, msg)

\* The function panics with the value the tests use.
RunPanic == \E r \in {"Forced exception"} : Panic(r)

\* -h is among the arguments or not; usage is what the parser of go-flags
\* writes as help for the options of the tests; the error of the parser is
\* none or that of a flag the options do not hold.
RunParseArgs ==
    \E help \in BOOLEAN,
       usage \in {"Usage:\n  go-plugin.test [OPTIONS]\n\nPlugin Options:\n"
                     \o "  -H, --hostname= Hostname\n\nDefault Options:\n"
                     \o "  -h, --help      Show this help message\n"},
       err \in {Nil, "unknown flag `x'"} :
        CallParseArgs(help, usage, err)

\* The steps of the function and of its deferred Final.
NextCalls ==
    \/ DeferFinal
    \/ RunParseArgs
    \/ RunAddMetric
    \/ RunAddResult
    \/ RunExit
    \/ RunPanic
    \/ Return
    \/ DeferredFinal
    \/ Unwind
    \/ Proceed

NextRun ==
    \/ SetPreamble
    \/ SetDescription
    \/ NextCalls

SpecRun == InitRun /\ [][NextRun]_vars

-----------------------------------------------------------------------------
(* SpecStatus: the function of SpecRun without help texts, which may also   *)
(* call AddMessage, UpdateStatus and SetMessage.                            *)

InitStatus ==
    /\ p = New(PluginName, PluginVersion)
    /\ pre = New(PluginName, PluginVersion)
    /\ call = Ready
    /\ ret = Nil
    /\ passed = {}
    /\ \E hook \in Hooks : run = NewRun(hook)

StatusAddMessage ==
    /\ call.op = "ready"
    /\ run.phase = "running"
    /\ \E msg \in Texts : CallAddMessage(msg)

StatusUpdateStatus ==
    /\ call.op = "ready"
    /\ run.phase = "running"
    /\ \E status \in Statuses : CallUpdateStatus(status)

StatusSetMessage ==
    /\ call.op = "ready"
    /\ run.phase = "running"
    /\ \E msg \in Texts : CallSetMessage(msg)

NextStatus ==
    \/ NextCalls
    \/ StatusAddMessage
    \/ StatusUpdateStatus
    \/ StatusSetMessage

SpecStatus == InitStatus /\ [][NextStatus]_vars

-----------------------------------------------------------------------------
(* SpecCodes: the function of SpecRun without help texts and arguments,     *)
(* which passes AddResult any Status: Status is an int, and a caller may    *)
(* pass plugin.Status(n) for any n. The statuses passed are recorded.       *)

\* check.AddResult(code, msg) with a constant, a negative Status, the first
\* Status above UNKNOWN or a higher one.
CodesAddResult ==
    /\ call.op = "ready"
    /\ run.phase = "running"
    /\ Len(p.messages) < MaxMessages
    /\ \E code \in {WARNING, 0 - 1, 4, 7}, msg \in Texts :
           /\ AddResultStep(code, msg)
           /\ passed' = passed \cup {code}
           /\ UNCHANGED run

NextCodes ==
    \/ DeferFinal
    \/ RunAddMetric
    \/ CodesAddResult
    \/ RunExit
    \/ RunPanic
    \/ Return
    \/ DeferredFinal
    \/ Unwind
    \/ Proceed

SpecCodes == InitStatus /\ [][NextCodes]_vars

-----------------------------------------------------------------------------
(* SpecValues: AddMetric called with values of every kind, the names        *)
(* passed with a value that was rejected recorded.                          *)

\* An int, float64 values (one with a fraction, one that is written with an
\* exponent, NaN), a float32, strings that are numbers (a fraction, more
\* digits than a float64 holds, an exponent) and strings that are not (no
\* digit, text behind the digits, the empty string, a number beyond the
\* range of float64).
ValueKinds ==
    {IntV(1),
     FloatV(Literal(<<"2", ".", "5">>, 64)),
     FloatV(Literal(<<"1", ".", "0", "0", "0", "0", "0", "0", "0", "1">>, 64)),
     FloatV(Literal(<<"1", "0", "0", "0", "0", "0", "0">>, 64)),
     FloatV(NaN),
     Float32V(Literal(<<"1", ".", "0", "0", "0", "1">>, 32)),
     StrV(<<"2">>), StrV(<<"-", "1">>),
     StrV(<<"1", ".", "0", "0", "0", "0", "0", "0", "0", "1">>),
     StrV(<<"1", "4", "8", "7", "8", "0", "1", "5", "9", "1", ".",
            "1", "7", "6", "2", "9", "1", "3", "8", "3">>),
     StrV(<<"1", "e", "2">>),
     StrV(<<"c">>), StrV(<<"1", "c">>), StrV(<<>>), StrV(<<"1", "e", "4", "0", "0">>)}

ValuesAddMetric ==
    /\ call.op = "ready"
    /\ \E name \in Names, value \in ValueKinds,
             args \in {<<<<"s">>, <<"1", ".", "0", "0", "0", "1">>>>} :
           \E r \in {AddMetric(p, name, value, args)} :
               /\ p' = r.p
               /\ pre' = p
               /\ call' = [Ready EXCEPT !.op = "AddMetric", !.name = name,
                                        !.value = value, !.args = args]
               /\ ret' = r.err
               /\ passed' = IF r.err # Nil /\ DisplayName(name) \notin DOMAIN p.metrics
                            THEN passed \cup {name} ELSE passed
               /\ UNCHANGED run

NextValues == ValuesAddMetric \/ Proceed

SpecValues == Init /\ [][NextValues]_vars

-----------------------------------------------------------------------------
(* SpecNames: one AddMetric call on a new Plugin, over every name of at     *)
(* most MaxNameLen characters, then Final.                                  *)

NameChars == {"a", " ", "'"}

AllNames == UNION {[1..n -> NameChars] : n \in 0..MaxNameLen}

NameAddMetric ==
    /\ call.op = "ready"
    /\ DOMAIN p.metrics = {}
    /\ run.output = <<>>
    /\ \E name \in AllNames : CallAddMetric(name, IntV(1), <<>>)

NextNames == NameAddMetric \/ CallFinal \/ Proceed

SpecNames == Init /\ [][NextNames]_vars

-----------------------------------------------------------------------------
(* SpecMessages: up to MaxAdded AddMessage calls, recorded in the order of  *)
(* the calls, with the separator assigned before, between or after them,    *)
(* and Final called directly.                                               *)

MessageTexts == {"up", "down"}

InitMessages ==
    /\ p = New(PluginName, PluginVersion)
    /\ pre = New(PluginName, PluginVersion)
    /\ call = Ready
    /\ ret = Nil
    /\ passed = <<>>
    /\ run = NewRun("record")

MessagesAddMessage ==
    /\ call.op = "ready"
    /\ Len(passed) < MaxAdded
    /\ \E msg \in MessageTexts :
           /\ p' = AddMessage(p, msg)
           /\ pre' = p
           /\ call' = [Ready EXCEPT !.op = "AddMessage", !.msg = msg]
           /\ ret' = Nil
           /\ passed' = Append(passed, msg)
           /\ UNCHANGED run

MessagesSetSeparator == \E sep \in Separators : SetMessageSeparator(sep)

\* A metric without thresholds, which adds no message of its own.
MessagesAddMetric ==
    /\ call.op = "ready"
    /\ run.output = <<>>
    /\ DOMAIN p.metrics = {}
    /\ CallAddMetric(<<"m">>, IntV(1), <<>>)

MessagesUpdateStatus ==
    /\ call.op = "ready"
    /\ run.output = <<>>
    /\ \E status \in Statuses : CallUpdateStatus(status)

NextMessages ==
    \/ MessagesAddMessage
    \/ MessagesSetSeparator
    \/ MessagesAddMetric
    \/ MessagesUpdateStatus
    \/ CallFinal
    \/ Proceed

SpecMessages == InitMessages /\ [][NextMessages]_vars

-----------------------------------------------------------------------------
(* SpecDefects: AddMetric calls that have none, one or several defects: a   *)
(* name already registered, a value that is no number, a malformed warning  *)
(* or critical spec, too many arguments.                                    *)

\* No defect (no argument, a warning spec, both specs); a malformed warning
\* spec; both specs malformed, either way round; a malformed critical spec
\* behind a valid and behind an empty warning spec; four arguments of which
\* two are malformed specs.
DefectArgLists ==
    {<<>>,
     <<<<"s">>, <<"2">>>>,
     <<<<"s">>, <<"2">>, <<"2">>>>,
     <<<<"s">>, <<"c">>>>,
     <<<<"s">>, <<"c">>, <<"2", ":", "1">>>>,
     <<<<"s">>, <<"2", ":", "1">>, <<"c">>>>,
     <<<<"s">>, <<"2">>, <<"c">>>>,
     <<<<"s">>, <<>>, <<"c">>>>,
     <<<<"s">>, <<"c">>, <<"2", ":", "1">>, <<"2">>>>}

DefectAddMetric ==
    /\ call.op = "ready"
    /\ \E name \in Names, value \in {IntV(1), StrV(<<"c">>)},
             args \in DefectArgLists :
           CallAddMetric(name, value, args)

NextDefects == DefectAddMetric \/ Proceed

SpecDefects == Init /\ [][NextDefects]_vars

-----------------------------------------------------------------------------
(* SpecQuoted: AddMetric called with a name that holds a space, with the    *)
(* same name between single quotes and with a name without a space, the     *)
(* names of the calls that registered a metric recorded as they were        *)
(* passed.                                                                  *)

QuotedNames ==
    {<<"a", " ", "b">>, <<"'", "a", " ", "b", "'">>, <<"a", "b">>}

QuotedAddMetric ==
    /\ call.op = "ready"
    /\ \E name \in QuotedNames,
             value \in {IntV(1), FloatV(Literal(<<"2", ".", "5">>, 64))},
             args \in {<<>>, <<<<"s">>, <<"2">>>>} :
           \E r \in {AddMetric(p, name, value, args)} :
               /\ p' = r.p
               /\ pre' = p
               /\ call' = [Ready EXCEPT !.op = "AddMetric", !.name = name,
                                        !.value = value, !.args = args]
               /\ ret' = r.err
               /\ passed' = IF r.err = Nil THEN passed \cup {name} ELSE passed
               /\ UNCHANGED run

NextQuoted == QuotedAddMetric \/ Proceed

SpecQuoted == Init /\ [][NextQuoted]_vars

-----------------------------------------------------------------------------
(* SpecOrder: up to MaxApplied operations of a fixed list applied to a new  *)
(* Plugin in any order, AddResult any number of times and each AddMetric,   *)
(* which has a name of its own and succeeds, at most once; how many times   *)
(* each operation was applied is recorded.                                  *)

OrderOps ==
    <<[Ready EXCEPT !.op = "AddResult", !.code = WARNING, !.msg = "up"],
      [Ready EXCEPT !.op = "AddResult", !.code = OK, !.msg = "down"],
      [Ready EXCEPT !.op = "AddResult", !.code = CRITICAL, !.msg = "down"],
      [Ready EXCEPT !.op = "AddMetric", !.name = <<"m", "1">>,
                    !.value = FloatV(Literal(<<"2", ".", "5">>, 64)),
                    !.args = <<<<"s">>, <<"2">>, <<"@", "2">>>>],
      [Ready EXCEPT !.op = "AddMetric", !.name = <<"a", " ", "b">>,
                    !.value = IntV(1),
                    !.args = <<<<"s">>, <<"2">>, <<"@", "2">>>>],
      [Ready EXCEPT !.op = "AddMetric", !.name = <<"m">>, !.value = IntV(1)]>>

\* The number of operations applied.
RECURSIVE Applied(_, _)
Applied(counts, i) ==
    IF i = 0 THEN 0 ELSE counts[i] + Applied(counts, i - 1)

InitOrder ==
    /\ p = New(PluginName, PluginVersion)
    /\ pre = New(PluginName, PluginVersion)
    /\ call = Ready
    /\ ret = Nil
    /\ passed = [i \in 1..Len(OrderOps) |-> 0]
    /\ run = NewRun("record")

\* check.AllMetricsInOutput = flag, before the first operation
OrderSetAllMetricsInOutput ==
    /\ call.op = "ready"
    /\ Applied(passed, Len(OrderOps)) = 0
    /\ \E flag \in BOOLEAN : SetAllMetricsInOutput(flag)

OrderAddResult ==
    /\ call.op = "ready"
    /\ Applied(passed, Len(OrderOps)) < MaxApplied
    /\ \E i \in 1..Len(OrderOps) :
           /\ OrderOps[i].op = "AddResult"
           /\ AddResultStep(OrderOps[i].code, OrderOps[i].msg)
           /\ passed' = [passed EXCEPT ![i] = @ + 1]
           /\ UNCHANGED run

OrderAddMetric ==
    /\ call.op = "ready"
    /\ Applied(passed, Len(OrderOps)) < MaxApplied
    /\ \E i \in DOMAIN passed :
           /\ passed[i] = 0
           /\ \E o \in {OrderOps[i]} :
                  /\ o.op = "AddMetric"
                  /\ \E r \in {AddMetric(p, o.name, o.value, o.args)} :
                         /\ p' = r.p
                         /\ ret' = r.err
                  /\ call' = o
           /\ pre' = p
           /\ passed' = [passed EXCEPT ![i] = 1]
           /\ UNCHANGED run

NextOrder ==
    \/ OrderSetAllMetricsInOutput
    \/ OrderAddResult
    \/ OrderAddMetric
    \/ Proceed

SpecOrder == InitOrder /\ [][NextOrder]_vars

-----------------------------------------------------------------------------
(* SpecEval: one AddMetric call on a new Plugin, over every threshold spec  *)
(* of at most MaxSpecLen characters.                                        *)

SpecChars == {"1", "2", "-", ".", "@", ":", "~"}

AllSpecs == UNION {[1..n -> SpecChars] : n \in 0..MaxSpecLen}

EvalName == <<"m", "1">>

EvalValues ==
    {IntV(0 - 1), IntV(1), IntV(2), FloatV(Literal(<<"1", ".", "5">>, 64))}

\* The spec under evaluation is the warning threshold, or the critical
\* threshold behind no warning threshold or behind the warning threshold "1".
EvalArgs ==
    {<<<<>>, a>> : a \in AllSpecs}
        \cup {<<<<>>, w, a>> : w \in {<<>>, <<"1">>}, a \in AllSpecs}

EvalAddMetric ==
    /\ call.op = "ready"
    /\ \E value \in EvalValues, args \in EvalArgs :
           CallAddMetric(EvalName, value, args)

NextEval == EvalAddMetric

SpecEval == Init /\ [][NextEval]_vars

-----------------------------------------------------------------------------
(* SpecNegative: one AddMetric call on a new Plugin with a threshold whose  *)
(* single bound is negative, plain or inverted, or whose two bounds are in  *)
(* either order, over values that are numbers and values that are NaN.      *)

NegativeValues ==
    {IntV(0 - 2), IntV(0 - 1), IntV(0), IntV(1), FloatV(Literal(<<"2", ".", "5">>, 64)),
     FloatV(Literal(<<"-", "1", ".", "2", "5">>, 64)), FloatV(NaN),
     StrV(<<"N", "a", "N">>)}

NegativeSpecs ==
    {<<"-", "1">>, <<"-", "2">>, <<"@", "-", "1">>, <<"@", "-", "2">>,
     <<"-", "1", ".", "5">>, <<"@", "-", "1", ".", "5">>,
     <<"2">>, <<"@", "2">>,
     <<"2", ":", "1">>, <<"@", "2", ":", "1">>, <<"-", "1", ":", "-", "2">>,
     <<"-", "2", ":", "-", "1">>}

\* The spec is the warning threshold, or the critical threshold behind no
\* warning threshold.
NegativeAddMetric ==
    /\ call.op = "ready"
    /\ \E value \in NegativeValues, a \in NegativeSpecs :
           \E args \in {<<<<>>, a>>, <<<<>>, <<>>, a>>} :
               CallAddMetric(EvalName, value, args)

NextNegative == NegativeAddMetric

SpecNegative == Init /\ [][NextNegative]_vars

-----------------------------------------------------------------------------
(* SpecAddResult: a new Plugin on which only AddResult is called, with the  *)
(* severities passed so far recorded.                                       *)

RecordedAddResult ==
    /\ call.op = "ready"
    /\ Len(p.messages) < MaxResults
    /\ \E code \in Statuses, msg \in {"up", "down"} :
           /\ AddResultStep(code, msg)
           /\ passed' = passed \cup {code}
           /\ UNCHANGED run

NextAddResult == RecordedAddResult \/ Proceed

SpecAddResult == Init /\ [][NextAddResult]_vars

-----------------------------------------------------------------------------
(* The threshold claims, under SpecEval *)

\* The spec under evaluation in the call made: the last argument.
EvalSpec == call.args[Len(call.args)]

\* Its position: 0 warning (two arguments), 1 critical (three arguments).
EvalPos == Len(call.args) - 2

EvalPosName == IF EvalPos = 0 THEN "warning" ELSE "critical"

\* The call decided that the spec under evaluation is breached: the metric
\* is stored with the severity of the spec's position.
EvalBreached ==
    /\ ret = Nil
    /\ EvalName \in DOMAIN p.metrics
    /\ p.metrics[EvalName].status = EvalPos + 1

\* A token that is a number: an optional minus sign, then digits with at
\* most one '.' before, among or behind them.
IsNumberToken(t) ==
    LET body == IF HasPrefix(t, "-") THEN Tail(t) ELSE t
        dots == {i \in 1..Len(body) : body[i] = "."}
    IN  /\ \A i \in 1..Len(body) : body[i] \in {"1", "2", "."}
        /\ Cardinality(dots) <= 1
        /\ Len(body) > Cardinality(dots)

RECURSIVE Pow10(_)
Pow10(n) == IF n <= 0 THEN 1 ELSE 10 * Pow10(n - 1)

\* The digits of a token read as one integer, the '.' left out.
RECURSIVE DigitsOf(_)
DigitsOf(t) ==
    IF t = <<>> THEN 0
    ELSE LET front == SubSeq(t, 1, Len(t) - 1)
             last  == t[Len(t)]
         IN  IF last = "." THEN DigitsOf(front)
             ELSE 10 * DigitsOf(front) + (IF last = "1" THEN 1 ELSE 2)

\* The number a number token is the decimal text of: m / 10^f.
NumberOf(t) ==
    LET neg  == HasPrefix(t, "-")
        body == IF neg THEN Tail(t) ELSE t
        dots == {i \in 1..Len(body) : body[i] = "."}
    IN  [m |-> IF neg THEN 0 - DigitsOf(body) ELSE DigitsOf(body),
         f |-> IF dots = {} THEN 0 ELSE Len(body) - (CHOOSE i \in dots : TRUE)]

\* a < b for numbers m / 10^f
Below(a, b) == a.m * Pow10(b.f) < b.m * Pow10(a.f)

Whole(n) == [m |-> n, f |-> 0]

\* The number the value of the call made is.
CallNumber ==
    CASE call.value.kind = "int" -> Whole(call.value.n)
      [] call.value = FloatV(Literal(<<"1", ".", "5">>, 64)) -> [m |-> 15, f |-> 1]
      [] call.value = FloatV(Literal(<<"2", ".", "5">>, 64)) -> [m |-> 25, f |-> 1]
      [] OTHER -> Whole(0)

\* The two sides of a spec that holds exactly one ':'.
LeftOf(S) == SubSeq(S, 1, (CHOOSE i \in 1..Len(S) : S[i] = ":") - 1)
RightOf(S) == SubSeq(S, (CHOOSE i \in 1..Len(S) : S[i] = ":") + 1, Len(S))
OneColon(S) == Cardinality({i \in 1..Len(S) : S[i] = ":"}) = 1

\* C1: for a value v and a well-formed threshold spec without '@', the spec
\* "X" is breached iff v < 0 or v > X, "~:B" iff v > B, "A:" iff v < A and
\* "A:B" with A <= B iff v < A or v > B, a value equal to a bound never being
\* a breach; an empty spec is neither a breach nor an error.
C1_BreachDecision ==
    call.op = "AddMetric" =>
        LET S == EvalSpec
            v == CallNumber
        IN  /\ IsNumberToken(S) =>
                   LET X == NumberOf(S)
                   IN  ret = Nil /\ (EvalBreached <=> (Below(v, Whole(0)) \/ Below(X, v)))
            /\ (OneColon(S) /\ LeftOf(S) = <<"~">> /\ IsNumberToken(RightOf(S))) =>
                   LET B == NumberOf(RightOf(S))
                   IN  ret = Nil /\ (EvalBreached <=> Below(B, v))
            /\ (OneColon(S) /\ IsNumberToken(LeftOf(S)) /\ RightOf(S) = <<>>) =>
                   LET A == NumberOf(LeftOf(S))
                   IN  ret = Nil /\ (EvalBreached <=> Below(v, A))
            /\ (OneColon(S) /\ IsNumberToken(LeftOf(S)) /\ IsNumberToken(RightOf(S))
                    /\ ~Below(NumberOf(RightOf(S)), NumberOf(LeftOf(S)))) =>
                   LET A == NumberOf(LeftOf(S))
                       B == NumberOf(RightOf(S))
                   IN  ret = Nil /\ (EvalBreached <=> (Below(v, A) \/ Below(B, v)))
            /\ S = <<>> => ret = Nil /\ ~EvalBreached

\* A value equal to the upper bound of the closed range "1:2" was evaluated
\* and is no breach.
C1_Witness ==
    /\ call.op = "AddMetric"
    /\ EvalSpec = <<"1", ":", "2">>
    /\ call.value = IntV(2)
    /\ ret = Nil
    /\ ~EvalBreached

\* The outcome of the call made, had its spec under evaluation been S.
EvalWith(S) ==
    AddMetric(New(PluginName, PluginVersion), call.name, call.value,
              [call.args EXCEPT ![Len(call.args)] = S])

\* C2: for a spec S without a leading '@', the breach decision for "@"+S is
\* the negation of the decision for S when S is well-formed, and "@"+S is a
\* format error when S is one (S either fails with a format error itself or
\* is the empty token, which is no number).
C2_InvertNegates ==
    (call.op = "AddMetric" /\ HasPrefix(EvalSpec, "@")
        /\ ~HasPrefix(Tail(EvalSpec), "@")) =>
        LET S     == Tail(EvalSpec)
            plain == EvalWith(S)
            plainBreached ==
                plain.p.metrics[EvalName].status = EvalPos + 1
        IN  IF S = <<>> \/ plain.err # Nil
            THEN ret = "Invalid format of " \o EvalPosName \o " threshold m1: "
                           \o Str(EvalSpec)
            ELSE ret = Nil /\ (EvalBreached <=> ~plainBreached)

\* The value 1 lies inside [0, 2]: "2" is not breached and "@2" was found
\* breached.
C2_Witness ==
    /\ call.op = "AddMetric"
    /\ EvalSpec = <<"@", "2">>
    /\ call.value = IntV(1)
    /\ EvalBreached
    /\ EvalWith(<<"2">>).err = Nil
    /\ EvalWith(<<"2">>).p.metrics[EvalName].status = OK

\* The malformed specs: after one leading '@' is stripped, three or more
\* parts between ':', a bound that is no number where one is required, or a
\* closed range A:B with A > B.
Malformed(a) ==
    LET arg    == IF HasPrefix(a, "@") THEN Tail(a) ELSE a
        colons == {i \in 1..Len(arg) : arg[i] = ":"}
    IN  IF Cardinality(colons) >= 2 THEN TRUE
        ELSE IF colons = {} THEN ~IsNumberToken(arg)
        ELSE LET i == CHOOSE k \in colons : TRUE
                 A == SubSeq(arg, 1, i - 1)
                 B == SubSeq(arg, i + 1, Len(arg))
             IN  IF A = <<"~">> THEN ~IsNumberToken(B)
                 ELSE IF B = <<>> THEN ~IsNumberToken(A)
                 ELSE \/ ~IsNumberToken(A)
                      \/ ~IsNumberToken(B)
                      \/ Below(NumberOf(B), NumberOf(A))

\* C3: AddMetric returns 'Invalid format of <warning|critical> threshold
\* <name>: <raw spec>' exactly when the non-empty spec is malformed, and then
\* decides no breach: the metric is not stored.
C3_FormatError ==
    (call.op = "AddMetric" /\ EvalSpec # <<>>) =>
        LET formatError == "Invalid format of " \o EvalPosName
                               \o " threshold m1: " \o Str(EvalSpec)
        IN  /\ ret \in {Nil, formatError}
            /\ ret = formatError <=> Malformed(EvalSpec)
            /\ ret = formatError => p = pre

\* The reversed closed range "@2:1" was given as the critical threshold and
\* returned the format error naming it, '@' included.
C3_Witness ==
    /\ call.op = "AddMetric"
    /\ call.args = <<<<>>, <<"1">>, <<"@", "2", ":", "1">>>>
    /\ ret = "Invalid format of critical threshold m1: @2:1"
    /\ p.metrics = <<>>

-----------------------------------------------------------------------------
(* The AddMetric and status claims, under Spec *)

\* The key the metric of the call made is registered under.
CallKey ==
    IF call.name = <<"a", " ", "b">> THEN <<"'", "a", " ", "b", "'">>
    ELSE call.name

\* The unit and the threshold specs the call made was given.
CallUom == IF Len(call.args) >= 1 THEN call.args[1] ELSE <<>>
CallWarn == IF Len(call.args) >= 2 THEN call.args[2] ELSE <<>>
CallCritical == IF Len(call.args) >= 3 THEN call.args[3] ELSE <<>>

\* The text of the value of the call made.
CallValueText ==
    CASE call.value = IntV(1) -> "1"
      [] call.value = FloatV(Literal(<<"2", ".", "5">>, 64)) -> "2.5"
      [] call.value = StrV(<<"c">>) -> "c"

\* The threshold specs of ArgLists that are well-formed, and whether the
\* number v breaches them.
Breaches(v, spec) ==
    CASE spec = <<"2">> -> Below(v, Whole(0)) \/ Below(Whole(2), v)
      [] spec = <<"@", "2">> -> ~(Below(v, Whole(0)) \/ Below(Whole(2), v))
      [] spec = <<"1", ":", "2">> -> Below(v, Whole(1)) \/ Below(Whole(2), v)
      [] spec = <<>> -> FALSE

WarnBreached == Breaches(CallNumber, CallWarn)
CriticalBreached == Breaches(CallNumber, CallCritical)

Returned(op) == call.op = op
Succeeded(op) == call.op = op /\ ret = Nil
Failed(op) == call.op = op /\ ret # Nil

Max(a, b) == IF a >= b THEN a ELSE b

\* C4: whenever AddMetric returns an error, the status, the messages and the
\* metrics are what they were before the call, also when the warning spec
\* was valid and breached and only the critical spec is malformed.
C4_ErrorChangesNothing ==
    Failed("AddMetric") =>
        /\ p.status = pre.status
        /\ p.messages = pre.messages
        /\ p.metrics = pre.metrics

\* The value 2.5 breaches the warning spec "2" and the critical spec "2:1" is
\* malformed: the call failed on a Plugin whose status was OK.
C4_Witness ==
    /\ Failed("AddMetric")
    /\ call.value = FloatV(Literal(<<"2", ".", "5">>, 64))
    /\ CallWarn = <<"2">>
    /\ CallCritical = <<"2", ":", "1">>
    /\ ret = "Invalid format of critical threshold m1: 2:1"
    /\ pre.status = OK
    /\ p = pre

\* C5: an AddMetric call whose name is already registered returns
\* 'Duplicated metric <name>' and every registered metric, the one of that
\* name included, keeps its value, unit, thresholds and severity and is
\* written unchanged by Final.
C5_DuplicateRejected ==
    (Returned("AddMetric") /\ CallKey \in DOMAIN pre.metrics) =>
        /\ ret = "Duplicated metric " \o Str(CallKey)
        /\ DOMAIN p.metrics = DOMAIN pre.metrics
        /\ \A k \in DOMAIN pre.metrics : p.metrics[k] = pre.metrics[k]
        /\ FinalOutput(p) = FinalOutput(pre)

\* m1 is registered with the value 1 and a second call for m1 with another
\* value and other arguments was rejected: the output still shows the first.
C5_Witness ==
    /\ Returned("AddMetric")
    /\ call.name = <<"m", "1">>
    /\ call.value = FloatV(Literal(<<"2", ".", "5">>, 64))
    /\ call.args = <<<<"s">>, <<"2">>>>
    /\ ret = "Duplicated metric m1"
    /\ <<"m", "1">> \in DOMAIN p.metrics
    /\ p.metrics[<<"m", "1">>].value = IntV(1)
    /\ p.metrics[<<"m", "1">>].uom = <<>>
    /\ FinalOutput(p) = "OK: | m1=1;;;;\n"

\* The severity a successful call derives for its metric.
DerivedSeverity ==
    IF CriticalBreached THEN CRITICAL
    ELSE IF WarnBreached THEN WARNING
    ELSE OK

\* C6: after a successful AddMetric the metric is stored with the severity
\* CRITICAL if its critical spec is present and breached, otherwise WARNING
\* if its warning spec is present and breached, otherwise OK, never UNKNOWN,
\* and the overall status is the maximum of the previous one and that
\* severity.
C6_DerivedSeverity ==
    Succeeded("AddMetric") =>
        /\ CallKey \in DOMAIN p.metrics
        /\ p.metrics[CallKey].status = DerivedSeverity
        /\ p.metrics[CallKey].status # UNKNOWN
        /\ p.status = Max(pre.status, DerivedSeverity)

\* The warning spec "2" is breached by 2.5 and the critical spec "@2" is not:
\* the metric is stored as WARNING on a Plugin that was CRITICAL before.
C6_Witness ==
    /\ Succeeded("AddMetric")
    /\ call.value = FloatV(Literal(<<"2", ".", "5">>, 64))
    /\ CallWarn = <<"2">>
    /\ CallCritical = <<"@", "2">>
    /\ p.metrics[CallKey].status = WARNING
    /\ pre.status = CRITICAL
    /\ p.status = CRITICAL

\* The alert message of the call made for the breached spec given.
ExpectedAlert(spec) ==
    Str(CallKey) \o " is " \o CallValueText \o Str(CallUom)
        \o (IF HasPrefix(spec, "@") THEN " (inside " ELSE " (outside ")
        \o Str(spec) \o ")"

\* C7: a successful AddMetric appends at most one message; when a threshold
\* is breached it is '<name> is <value><uom> (outside <spec>)', or
\* '(inside <spec>)' when the spec is inverted, with the raw spec, built from
\* the critical spec when that is breached and from the warning spec
\* otherwise.
C7_AlertMessage ==
    Succeeded("AddMetric") =>
        /\ Len(p.messages) <= Len(pre.messages) + 1
        /\ SubSeq(p.messages, 1, Len(pre.messages)) = pre.messages
        /\ CriticalBreached =>
               p.messages = Append(pre.messages, ExpectedAlert(CallCritical))
        /\ (WarnBreached /\ ~CriticalBreached) =>
               p.messages = Append(pre.messages, ExpectedAlert(CallWarn))

\* Both thresholds are breached by 2.5: the one message added is the one of
\* the critical spec.
C7_Witness ==
    /\ Succeeded("AddMetric")
    /\ call.name = <<"a", " ", "b">>
    /\ call.value = FloatV(Literal(<<"2", ".", "5">>, 64))
    /\ CallWarn = <<"2">>
    /\ CallCritical = <<"1", ":", "2">>
    /\ p.messages = Append(pre.messages, "'a b' is 2.5s (outside 1:2)")

\* C8: a successful AddMetric without a breached threshold appends exactly
\* '<name> is <value><uom>' and leaves the status alone when
\* AllMetricsInOutput is set, and appends nothing when it is not.
C8_PlainMessage ==
    (Succeeded("AddMetric") /\ ~WarnBreached /\ ~CriticalBreached) =>
        IF pre.AllMetricsInOutput
        THEN /\ p.messages = Append(pre.messages,
                     Str(CallKey) \o " is " \o CallValueText \o Str(CallUom))
             /\ p.status = pre.status
        ELSE p.messages = pre.messages

\* With AllMetricsInOutput set, m1 with value 1 inside its warning range was
\* added behind an earlier message.
C8_Witness ==
    /\ Succeeded("AddMetric")
    /\ pre.AllMetricsInOutput
    /\ call.name = <<"m", "1">>
    /\ call.value = IntV(1)
    /\ call.args = <<<<"s">>, <<"2">>>>
    /\ pre.messages = <<"up">>
    /\ p.messages = <<"up", "m1 is 1s">>
    /\ p.status = pre.status

\* C9: UpdateStatus(s) sets the status to the maximum of the current one and
\* s under OK=0 < WARNING=1 < CRITICAL=2 < UNKNOWN=3 and changes nothing
\* else; merging a then b gives the status of merging b then a, at least
\* both; UNKNOWN wins any merge.
C9_WorstWins ==
    /\ Returned("UpdateStatus") =>
           /\ p.status = Max(pre.status, call.code)
           /\ p = [pre EXCEPT !.status = p.status]
           /\ call.code = UNKNOWN => p.status = UNKNOWN
    /\ <<OK, WARNING, CRITICAL, UNKNOWN>> = <<0, 1, 2, 3>>
    /\ \A a, b \in Statuses :
           LET ab == UpdateStatus(UpdateStatus(p, a), b).status
               ba == UpdateStatus(UpdateStatus(p, b), a).status
           IN  ab = ba /\ ab >= a /\ ab >= b /\ ab >= p.status

\* UNKNOWN was merged into a CRITICAL status and won.
C9_Witness ==
    /\ Returned("UpdateStatus")
    /\ pre.status = CRITICAL
    /\ call.code = UNKNOWN
    /\ p.status = UNKNOWN

-----------------------------------------------------------------------------
(* The AddResult claim, under SpecAddResult *)

\* The largest of a set of severities, OK for the empty set.
MaxOf(S) == IF S = {} THEN OK ELSE CHOOSE a \in S : \A b \in S : a >= b

\* C10: after any sequence of AddResult calls on a new Plugin the status is
\* the maximum severity passed so far, OK if none; every call appends its
\* text whatever its severity, and a call with OK lowers no status.
C10_AddResult ==
    /\ p.status = MaxOf(passed)
    /\ Returned("AddResult") =>
           /\ p.messages = Append(pre.messages, call.msg)
           /\ p.status >= pre.status
           /\ call.code = OK => p.status = pre.status

\* After CRITICAL and later results, a result with OK was added as the third
\* message and the status is still CRITICAL.
C10_Witness ==
    /\ Returned("AddResult")
    /\ call.code = OK
    /\ CRITICAL \in passed
    /\ UNKNOWN \notin passed
    /\ Len(p.messages) = 3
    /\ p.status = CRITICAL

-----------------------------------------------------------------------------
(* The claims about what Final writes, under SpecFinal *)

\* The text of the names, units, threshold specs and values SpecFinal uses,
\* written out.
Shown ==
    <<>> :> "" @@ <<"s">> :> "s" @@ <<"2">> :> "2" @@ <<"@", "2">> :> "@2" @@
    <<"m">> :> "m" @@ <<"m", "1">> :> "m1" @@
    <<"'", "a", " ", "b", "'">> :> "'a b'"

ShownValue(v) == IF v = IntV(1) THEN "1" ELSE IF v = FloatV(Literal(<<"2", ".", "5">>, 64)) THEN "2.5" ELSE "?"

SeverityWord ==
    OK :> "OK" @@ WARNING :> "WARNING" @@ CRITICAL :> "CRITICAL" @@
    UNKNOWN :> "UNKNOWN"

\* The stored names of SpecFinal in ascending byte order: the quote (39)
\* is below every letter, and "m" is a proper prefix of "m1".
Ascending == <<<<"'", "a", " ", "b", "'">>, <<"m">>, <<"m", "1">>>>

\* The first n messages, each but the first behind the separator.
RECURSIVE Joined(_, _, _)
Joined(msgs, sep, n) ==
    IF n = 0 THEN ""
    ELSE IF n = 1 THEN msgs[1]
    ELSE Joined(msgs, sep, n - 1) \o sep \o msgs[n]

\* ' <name>=<value><uom>;<warn>;<critical>;;' for the metric stored as k
ExpectedMetric(q, k) ==
    LET m == q.metrics[k]
    IN  " " \o Shown[k] \o "=" \o ShownValue(m.value) \o Shown[m.uom] \o ";"
            \o Shown[m.warn] \o ";" \o Shown[m.critical] \o ";" \o ";"

\* The metrics of q from the i-th stored name on, in ascending order.
RECURSIVE ExpectedMetrics(_, _)
ExpectedMetrics(q, i) ==
    IF i > Len(Ascending) THEN ""
    ELSE (IF Ascending[i] \in DOMAIN q.metrics
          THEN ExpectedMetric(q, Ascending[i]) ELSE "")
             \o ExpectedMetrics(q, i + 1)

ExpectedLine(q) ==
    SeverityWord[q.status] \o ":"
        \o (IF q.messages # <<>>
            THEN " " \o Joined(q.messages, q.MessageSeparator, Len(q.messages))
            ELSE "")
        \o (IF DOMAIN q.metrics # {}
            THEN " |" \o ExpectedMetrics(q, 1) ELSE "")
        \o "\n"

LastLine == run.output[Len(run.output)]

\* C11: Final writes the severity word, ':', a space and the joined messages
\* only when there is a message, ' |' and one ' <name>=<value><uom>;<warn>;
\* <critical>;;' per metric only when there is a metric, then a newline; the
\* warn and critical fields are the specs AddMetric was given (empty when
\* absent or empty); a new Plugin renders 'OK:\n'.
C11_FinalFormat ==
    /\ call.op = "Final" =>
           /\ LastLine = ExpectedLine(pre)
           /\ Len(run.output) = 1 /\ pre.status = OK /\ pre.messages = <<>>
                 /\ DOMAIN pre.metrics = {} => LastLine = "OK:\n"
    /\ Succeeded("AddMetric") =>
           /\ CallKey \in DOMAIN p.metrics
           /\ p.metrics[CallKey].value = call.value
           /\ p.metrics[CallKey].uom = CallUom
           /\ p.metrics[CallKey].warn = CallWarn
           /\ p.metrics[CallKey].critical = CallCritical

\* Final has written a line with two messages and two metrics, one of them
\* with a unit and both thresholds, the other with neither.
C11_Witness ==
    /\ call.op = "Final"
    /\ LastLine = "CRITICAL: up; m1 is 1s (inside @2) | m=2.5;;;; m1=1s;2;@2;;\n"

\* The enumerations of the set K: every order its elements can be listed in.
Enumerations(K) ==
    {ord \in [1..Cardinality(K) -> K] :
        \A i, j \in 1..Cardinality(K) : i # j => ord[i] # ord[j]}

\* The place of a stored name in the ascending order.
Rank(k) == CHOOSE i \in 1..Len(Ascending) : Ascending[i] = k

IsAscending(ord) ==
    \A i, j \in 1..Len(ord) : i < j => Rank(ord[i]) < Rank(ord[j])

\* The line up to the metrics.
LineStart(q) ==
    SeverityWord[q.status] \o ":"
        \o (IF q.messages # <<>>
            THEN " " \o Joined(q.messages, q.MessageSeparator, Len(q.messages))
            ELSE "")

\* C12: the metrics in Final's output appear in ascending lexicographic order
\* of their stored names, whatever the order of the AddMetric calls: of all
\* the orders the registered metrics can be listed in, the line written is
\* the one that lists them in ascending order.
C12_MetricsSorted ==
    call.op = "Final" /\ DOMAIN pre.metrics # {} =>
        \A ord \in Enumerations(DOMAIN pre.metrics) :
            (LastLine = LineStart(pre) \o " |" \o MetricsText(pre, ord) \o "\n")
                <=> IsAscending(ord)

\* Final has written three metrics in ascending order that were added in
\* another order: "m1" first, then "a b", then "m", as their alerts tell.
C12_Witness ==
    /\ call.op = "Final"
    /\ pre.messages = <<"m1 is 2.5s (outside 2)", "'a b' is 2.5s (outside 2)",
                        "m is 2.5s (outside 2)">>
    /\ LastLine = "WARNING: m1 is 2.5s (outside 2), 'a b' is 2.5s (outside 2), "
                    \o "m is 2.5s (outside 2) |"
                    \o " 'a b'=2.5s;2;@2;; m=2.5s;2;@2;; m1=2.5s;2;@2;;\n"

\* C13: with no fault to recover, Final leaves the status, the messages and
\* the metrics as they were, so that Final called twice on the same Plugin
\* writes the same line twice and hands the same code to the exit hook.
C13_FinalReadOnly ==
    call.op = "Final" =>
        /\ p.status = pre.status
        /\ p.messages = pre.messages
        /\ p.metrics = pre.metrics
        /\ Len(run.output) = Len(run.exits)
        /\ \A i, j \in 1..Len(run.output) :
               /\ run.output[i] = run.output[j]
               /\ ExitCode(run.exits[i]) = ExitCode(run.exits[j])

\* Final has run twice on a Plugin that holds a message and a metric and
\* whose status is not OK.
C13_Witness ==
    /\ call.op = "Final"
    /\ Len(run.output) = 2
    /\ p.status = WARNING
    /\ p.messages # <<>>
    /\ DOMAIN p.metrics # {}

-----------------------------------------------------------------------------
(* The claims about the end of a run, under SpecRun *)

\* C14: from any reachable state an exit shortcut with message m writes
\* exactly '<SEVERITY>: m\n' and passes that severity to the exit hook; the
\* messages and metrics accumulated before are discarded and the status is
\* set to the named severity, not merged by worst-wins.
C14_ExitShortcut ==
    call.op = "Exit" =>
        /\ LastLine = SeverityWord[call.code] \o ": " \o call.msg \o "\n"
        /\ run.exits[Len(run.exits)] = call.code
        /\ p.status = call.code
        /\ p.messages = <<call.msg>>
        /\ DOMAIN p.metrics = {}

\* ExitOK was called on a Plugin that was CRITICAL and held a message and a
\* metric: it wrote 'OK: down\n' and passed OK to the hook.
C14_Witness ==
    /\ call.op = "Exit"
    /\ call.code = OK
    /\ pre.status = CRITICAL
    /\ pre.messages # <<>>
    /\ DOMAIN pre.metrics # {}
    /\ run.output = <<"OK: down\n">>
    /\ run.exits = <<OK>>

\* The message Final makes of the panic r of the Plugin q.
PanicMessage(q, r) == q.Name \o " panic: " \o r

\* The deferred Final has just handled a panic.
Recovered == call.op = "deferred Final" /\ call.msg # Nil

\* C15: when the function panics with Final deferred, Final recovers the
\* panic: it writes exactly 'CRITICAL: <plugin name> panic: <fault detail>\n'
\* and nothing else, hands CRITICAL to the exit hook, and the messages and
\* metrics accumulated before are discarded, whatever the status was before,
\* UNKNOWN included.
C15_PanicRecovered ==
    /\ [][run.phase = "panicking" /\ run.deferred =>
             /\ run'.output = Append(run.output,
                     "CRITICAL: " \o PanicMessage(p, run.fault) \o "\n")
             /\ run'.exits = Append(run.exits, CRITICAL)
             /\ run'.phase \in {"exited", "returned"}
             /\ p'.status = CRITICAL
             /\ p'.messages = <<PanicMessage(p, run.fault)>>
             /\ DOMAIN p'.metrics = {}]_vars
    /\ [](Recovered /\ run.hook = "os.Exit" =>
             /\ run.output = <<"CRITICAL: " \o PanicMessage(pre, call.msg) \o "\n">>
             /\ run.exits = <<CRITICAL>>)

\* Final has recovered a panic of a Plugin that was UNKNOWN and held a
\* message and a metric.
C15_Witness ==
    /\ Recovered
    /\ pre.status = UNKNOWN
    /\ pre.messages # <<>>
    /\ DOMAIN pre.metrics # {}
    /\ run.output = <<"CRITICAL: check_plugin panic: Forced exception\n">>
    /\ run.exits = <<CRITICAL>>
    /\ p.messages = <<"check_plugin panic: Forced exception">>
    /\ DOMAIN p.metrics = {}

\* The function has come to its end: the hook has ended the process, or the
\* function has returned to its caller.
Ended == run.phase \in {"exited", "returned"}

\* C16 as stated: in every run that defers Final, the status line is written
\* exactly once and the exit hook is invoked exactly once, also when an exit
\* shortcut is called while the deferred Final is pending.
C16_ExactlyOnce ==
    Ended /\ run.deferred => Len(run.output) = 1 /\ Len(run.exits) = 1

\* The help ParseArgs writes for the Plugin q in the runs of SpecRun.
HelpOf(q) ==
    (IF q.Name = "check_plugin" THEN "check_plugin v1.0\n" ELSE "check_x v2\n")
        \o (IF q.Preamble = "" THEN "" ELSE "Test output\n")
        \o "Usage:\n  go-plugin.test [OPTIONS]\n\nPlugin Options:\n"
        \o "  -H, --hostname= Hostname\n\nDefault Options:\n"
        \o "  -h, --help      Show this help message\n\n"
        \o (IF q.Description = "" THEN "" ELSE "Description:\n123\n")

\* The severity words by exit code, from 0.
WordOfCode == <<"OK", "WARNING", "CRITICAL", "UNKNOWN">>

\* The line behind the severity word.
LineRest(q) ==
    ":" \o (IF q.messages # <<>>
            THEN " " \o Joined(q.messages, q.MessageSeparator, Len(q.messages))
            ELSE "")
        \o (IF DOMAIN q.metrics # {}
            THEN " |" \o ExpectedMetrics(q, 1) ELSE "")
        \o "\n"

\* The status line of the Plugin q.
StatusLine(q) == WordOfCode[q.status + 1] \o LineRest(q)

\* C16 as amended: every execution of Final or of an exit shortcut completes,
\* writes one status line and invokes the exit hook once; ParseArgs with -h
\* among the arguments writes the help, which is no status line, and invokes
\* the hook once with UNKNOWN; no other call of a run writes or invokes the
\* hook. When the hook ends the process (os.Exit) the run has exactly one
\* text written and one hook invocation: the status line when it ended by
\* the deferred Final, by a recovered panic or by an exit shortcut, the help
\* and no status line when it ended in ParseArgs. When the hook returns, the
\* function goes on after an exit shortcut or after ParseArgs, and the
\* deferred Final writes one more line and invokes the hook once more. A
\* run that defers Final and does not end in ParseArgs ends with a status
\* line.
C16_OncePerFinal ==
    /\ [](Len(run.output) = Len(run.exits))
    /\ [](run.phase = "exited" =>
             /\ Len(run.output) = 1
             /\ IF call.op = "ParseArgs"
                THEN run.output = <<HelpOf(p)>> /\ run.exits = <<UNKNOWN>>
                ELSE /\ call.op \in {"Exit", "deferred Final"}
                     /\ run.output = <<StatusLine(p)>>)
    /\ [](Ended /\ run.deferred =>
             /\ Len(run.output) >= 1
             /\ run.hook = "os.Exit" => run.phase = "exited"
             /\ call.op # "ParseArgs" => run.output[Len(run.output)] = StatusLine(p))
    /\ [][/\ run.phase \in {"panicking", "returning"} /\ run.deferred =>
                Len(run'.output) = Len(run.output) + 1
          /\ run.phase = "running" /\ run'.output # run.output =>
                /\ call'.op \in {"Exit", "ParseArgs"}
                /\ Len(run'.output) = Len(run.output) + 1
                /\ call'.op = "Exit" =>
                       run'.output[Len(run'.output)] = StatusLine(p')
                /\ call'.op = "ParseArgs" =>
                       /\ call'.flag
                       /\ run'.output[Len(run'.output)] = HelpOf(p)
                       /\ run'.exits[Len(run'.exits)] = UNKNOWN
                       /\ p' = p
          /\ call'.op = "ParseArgs" /\ ~call'.flag => run' = run /\ p' = p
          /\ SubSeq(run'.output, 1, Len(run.output)) = run.output
          /\ SubSeq(run'.exits, 1, Len(run.exits)) = run.exits]_vars

\* Under the recording hook ExitOK was called with Final deferred, and the
\* function then returned: two lines are written and the hook was invoked
\* twice.
C16_Witness ==
    /\ Ended
    /\ run.deferred
    /\ run.hook = "record"
    /\ run.output = <<"OK: down\n", "OK: down\n">>
    /\ run.exits = <<OK, OK>>

\* Final has just written a line and invoked the hook, called by an exit
\* shortcut or as the deferred call.
Wrote == call.op \in {"Exit", "deferred Final"}

\* C17 as stated: the code Final passes to the exit hook is the numeric code
\* of the overall status (OK 0, WARNING 1, CRITICAL 2, UNKNOWN 3), the
\* severity word of the line names the severity of that code, and the exit
\* code is always one of 0, 1, 2, 3. A Status above UNKNOWN passed to
\* AddResult refutes it: see C17_ExitCodeOfStatus.
C17_ExitCode ==
    /\ \A i \in 1..Len(run.exits) : ExitCode(run.exits[i]) \in {0, 1, 2, 3}
    /\ Wrote =>
           LET code == ExitCode(run.exits[Len(run.exits)])
           IN  /\ p.status = OK => code = 0
               /\ p.status = WARNING => code = 1
               /\ p.status = CRITICAL => code = 2
               /\ p.status = UNKNOWN => code = 3
               /\ p.status \in {OK, WARNING, CRITICAL, UNKNOWN}
               /\ LastLine = WordOfCode[code + 1] \o LineRest(p)

\* C17 for the statuses the code admits: the code Final passes to the exit
\* hook is the number of the overall status, whatever it is. While every
\* status passed is one of the four constants the code is one of 0, 1, 2, 3
\* and the severity word of the line names the severity of that code. A
\* status that is none of the four is never below 0, was passed by the
\* caller, goes to the hook as it is, and the line says UNKNOWN.
C17_ExitCodeOfStatus ==
    /\ \A i \in 1..Len(run.exits) :
           /\ ExitCode(run.exits[i]) >= 0
           /\ ExitCode(run.exits[i]) \in {0, 1, 2, 3} \cup passed
    /\ p.status \in {0, 1, 2, 3} \cup {c \in passed : c > 3}
    /\ Wrote =>
           LET code == ExitCode(run.exits[Len(run.exits)])
           IN  /\ p.status = OK => code = 0
               /\ p.status = WARNING => code = 1
               /\ p.status = CRITICAL => code = 2
               /\ p.status = UNKNOWN => code = 3
               /\ code = p.status
               /\ code \in {0, 1, 2, 3} =>
                      LastLine = WordOfCode[code + 1] \o LineRest(p)
               /\ code \notin {0, 1, 2, 3} =>
                      LastLine = "UNKNOWN" \o LineRest(p)

\* AddResult was passed Status(7), a metric has alerted, and the deferred
\* Final has written an UNKNOWN line and passed 7 to the hook.
C17_Witness ==
    /\ call.op = "deferred Final"
    /\ passed = {7}
    /\ run.exits = <<7>>
    /\ run.output = <<"UNKNOWN: up, m1 is 1s (inside @2) | m1=1s;2;@2;;\n">>

-----------------------------------------------------------------------------
(* The claims about the arguments of AddMetric, under Spec *)

\* The call made has a name that is not registered and a value that is a
\* number, so that neither of the errors reported first applies.
CallFresh == CallKey \notin DOMAIN pre.metrics

CallNumeric == call.value.kind # "string"

\* C18: AddMetric takes 0 to 3 optional arguments, read by position as unit,
\* warning spec and critical spec; with 4 or more it returns 'Too many
\* arguments' and the metric is not stored and not in the output, also when
\* AllMetricsInOutput is set.
C18_TooManyArguments ==
    Returned("AddMetric") =>
        /\ Len(call.args) >= 4 =>
               /\ ret # Nil
               /\ p = pre
               /\ FinalOutput(p) = FinalOutput(pre)
               /\ CallFresh => CallKey \notin DOMAIN p.metrics
               /\ CallFresh /\ CallNumeric => ret = "Too many arguments"
        /\ Len(call.args) <= 3 => ret # "Too many arguments"
        /\ Len(call.args) <= 1 /\ CallFresh /\ CallNumeric => ret = Nil
        /\ ret = Nil =>
               /\ Len(call.args) <= 3
               /\ p.metrics[CallKey].uom =
                      (IF Len(call.args) >= 1 THEN call.args[1] ELSE <<>>)
               /\ p.metrics[CallKey].warn =
                      (IF Len(call.args) >= 2 THEN call.args[2] ELSE <<>>)
               /\ p.metrics[CallKey].critical =
                      (IF Len(call.args) >= 3 THEN call.args[3] ELSE <<>>)

\* A call with four optional arguments, a new name and a number was
\* rejected with AllMetricsInOutput set: no message, no metric.
C18_Witness ==
    /\ Failed("AddMetric")
    /\ Len(call.args) = 4
    /\ ret = "Too many arguments"
    /\ pre.AllMetricsInOutput
    /\ p.messages = <<>>
    /\ DOMAIN p.metrics = {}
    /\ FinalOutput(p) = "OK:\n"

-----------------------------------------------------------------------------
(* The claim about the value of AddMetric, under SpecValues *)

\* The values of SpecValues that are numbers, and the text of those that are
\* not.
RejectedText ==
    StrV(<<"c">>) :> "c" @@ StrV(<<"1", "c">>) :> "1c" @@ StrV(<<>>) :> ""
        @@ StrV(<<"1", "e", "4", "0", "0">>) :> "1e400"

NumberValues == ValueKinds \ DOMAIN RejectedText

CallNameText == IF call.name = <<"m", "1">> THEN "m1" ELSE "'a b'"

\* C19: AddMetric accepts an integer, a floating-point number or a string
\* that parses as a number; for any other value it returns 'Invalid value of
\* <name>: <value>' and stores nothing. The failure is local: a later call
\* with the same name can still succeed.
C19_InvalidValue ==
    /\ Returned("AddMetric") /\ CallFresh =>
           IF call.value \in NumberValues
           THEN /\ ret = Nil
                /\ CallKey \in DOMAIN p.metrics
                /\ p.metrics[CallKey].value = call.value
           ELSE /\ ret = "Invalid value of " \o CallNameText \o ": "
                             \o RejectedText[call.value]
                /\ p = pre
                /\ CallKey \notin DOMAIN p.metrics
    /\ \A name \in passed :
           DisplayName(name) \notin DOMAIN p.metrics =>
               \A value \in NumberValues :
                   LET r == AddMetric(p, name, value, <<>>)
                   IN  r.err = Nil /\ DisplayName(name) \in DOMAIN r.p.metrics

\* m1 was passed with a value that is no number and rejected; a later call
\* for m1 with the float32 1.0001 succeeded and m1 is registered with it: the
\* value is written as the float32 it is and was compared as the float64 it
\* converts to, 1.000100016593933, which lies above the bound 1.0001.
C19_Witness ==
    /\ Succeeded("AddMetric")
    /\ call.name = <<"m", "1">>
    /\ call.name \in passed
    /\ call.value.kind = "float32"
    /\ FinalOutput(p) = "WARNING: m1 is 1.0001s (outside 1.0001) | m1=1.0001s;1.0001;;;\n"

-----------------------------------------------------------------------------
(* The claim about the quoting of names, under SpecNames *)

HasSpace(name) == \E i \in 1..Len(name) : name[i] = " "

Wrapped(name) == <<"'">> \o name \o <<"'">>

\* The name stands between two single quotes already.
AlreadyQuoted(name) ==
    Len(name) >= 2 /\ name[1] = "'" /\ name[Len(name)] = "'"

StartsWithQuote(name) == name # <<>> /\ name[1] = "'"

\* The text of a name, from its last character back.
RECURSIVE Spelled(_)
Spelled(name) ==
    IF name = <<>> THEN ""
    ELSE Spelled(SubSeq(name, 1, Len(name) - 1)) \o name[Len(name)]

\* The one name registered.
StoredName == CHOOSE k \in DOMAIN p.metrics : TRUE

\* C20 as stated: a name that holds a space is stored wrapped in single
\* quotes, unless it is a quoted name already, and a name without a space is
\* stored unchanged.
C20_SpaceQuoted ==
    Succeeded("AddMetric") =>
        DOMAIN p.metrics =
            {IF HasSpace(call.name) /\ ~AlreadyQuoted(call.name)
             THEN Wrapped(call.name) ELSE call.name}

\* C20 as amended: a name that holds a space and does not begin with a
\* single quote is wrapped in single quotes once, at registration, and the
\* quoted form is the key of the registry and of the output; a name without
\* a space, or one that begins with a single quote, is stored unchanged.
\* Quoting the stored name again changes nothing.
C20_QuotedUnlessPrefixed ==
    /\ Succeeded("AddMetric") =>
           /\ DOMAIN p.metrics =
                  {IF HasSpace(call.name) /\ ~StartsWithQuote(call.name)
                   THEN Wrapped(call.name) ELSE call.name}
           /\ DisplayName(StoredName) = StoredName
           /\ AddMetric(p, StoredName, IntV(1), <<>>).err
                  = "Duplicated metric " \o Spelled(StoredName)
    /\ call.op = "Final" /\ DOMAIN pre.metrics # {} =>
           LastLine = "OK: | " \o Spelled(StoredName) \o "=1;;;;\n"

\* The name "a a" was registered as 'a a' and Final has written it so.
C20_Witness ==
    /\ call.op = "Final"
    /\ DOMAIN p.metrics = {<<"'", "a", " ", "a", "'">>}
    /\ LastLine = "OK: | 'a a'=1;;;;\n"

-----------------------------------------------------------------------------
(* The claims about the messages *)

\* C21: SetMessage leaves exactly one message, the one it was passed,
\* whatever the messages were before, and leaves the overall status and the
\* registered metrics as they were.
C21_SetMessage ==
    Returned("SetMessage") =>
        /\ p.messages = <<call.msg>>
        /\ p.status = pre.status
        /\ p.metrics = pre.metrics

\* Two messages, a CRITICAL status and a registered metric stood when
\* SetMessage was called: one message is left.
C21_Witness ==
    /\ Returned("SetMessage")
    /\ Len(pre.messages) >= 2
    /\ pre.status = CRITICAL
    /\ DOMAIN pre.metrics # {}
    /\ Len(p.messages) = 1

\* The messages part of the line: nothing without a message, else a space
\* and the messages from the first added to the last, each but the first
\* behind the separator.
MessagesPart(msgs, sep) ==
    IF msgs = <<>> THEN "" ELSE " " \o Joined(msgs, sep, Len(msgs))

MetricsPart(q) == IF DOMAIN q.metrics = {} THEN "" ELSE " | m=1;;;;"

\* C22: AddMessage returns no error and appends its text behind the
\* messages held, leaving status and metrics alone, so the messages are the
\* texts in the order of the calls; Final writes them in that order, joined
\* by the MessageSeparator the Plugin has when Final runs, which is ', '
\* until it is assigned; one message is written without a separator.
C22_MessagesInOrder ==
    /\ p.MessageSeparator = ", "
    /\ [][p'.MessageSeparator # p.MessageSeparator
              => call'.op = "MessageSeparator"
                     /\ p'.MessageSeparator = call'.msg]_vars
    /\ [](Returned("AddMessage") =>
              /\ ret = Nil
              /\ p.messages = pre.messages \o <<call.msg>>
              /\ p.status = pre.status
              /\ p.metrics = pre.metrics)
    /\ [](p.messages = passed)
    /\ [](call.op = "Final" =>
              /\ LastLine = SeverityWord[pre.status] \o ":"
                     \o MessagesPart(passed, pre.MessageSeparator)
                     \o MetricsPart(pre) \o "\n"
              /\ Len(passed) = 1 =>
                     LastLine = SeverityWord[pre.status] \o ": " \o passed[1]
                                    \o MetricsPart(pre) \o "\n")

\* Three messages were added under the separator ', ' and written by a
\* first Final; the separator was assigned afterwards and a second Final has
\* written the same messages with it.
C22_Witness ==
    /\ call.op = "Final"
    /\ passed = <<"up", "down", "up">>
    /\ run.output = <<"WARNING: up, down, up | m=1;;;;\n",
                      "WARNING: up; down; up | m=1;;;;\n">>

-----------------------------------------------------------------------------
(* The claims about the overall status *)

\* The calls that never lower the status.
Accumulating ==
    {"AddMetric", "AddMessage", "AddResult", "UpdateStatus", "SetMessage"}

\* C23: no AddMetric, AddMessage, AddResult, UpdateStatus or SetMessage
\* call, failed or not, leaves the overall status below what it was; a step
\* that lowers it is an exit shortcut or the Final that recovered a panic.
C23_StatusNeverDecreases ==
    [][/\ call'.op \in Accumulating => p'.status >= p.status
       /\ p'.status < p.status =>
              \/ call'.op = "Exit"
              \/ call'.op = "deferred Final" /\ call'.msg # Nil]_vars

\* ExitCritical and then ExitWarning have lowered the status to WARNING
\* under the hook that returns, and an AddMetric call that failed as a
\* duplicate has left it at WARNING.
C23_Witness ==
    /\ Failed("AddMetric")
    /\ run.exits = <<CRITICAL, WARNING>>
    /\ pre.status = WARNING
    /\ p.status = WARNING

\* C24: in every state the overall status is at least the severity of
\* every metric in the registry, and an exit shortcut leaves the registry
\* empty.
C24_StatusCoversMetrics ==
    /\ \A k \in DOMAIN p.metrics : p.status >= p.metrics[k].status
    /\ call.op = "Exit" => DOMAIN p.metrics = {}

\* ExitOK has come back under the hook that returns, leaving the status OK
\* and no metric; the metric added next breached its critical threshold.
C24_Witness ==
    /\ Succeeded("AddMetric")
    /\ run.exits = <<OK>>
    /\ pre.status = OK
    /\ DOMAIN pre.metrics = {}
    /\ p.metrics[<<"m", "1">>].status = CRITICAL
    /\ p.status = CRITICAL

-----------------------------------------------------------------------------
(* The claim about the error of a call with several defects, under          *)
(* SpecDefects                                                              *)

\* The defects of the call made.
IsDuplicate == CallKey \in DOMAIN pre.metrics

NotNumeric == call.value = StrV(<<"c">>)

TooMany == Len(call.args) > 3

BadWarning ==
    Len(call.args) \in {2, 3} /\ CallWarn # <<>> /\ Malformed(CallWarn)

BadCritical ==
    Len(call.args) = 3 /\ CallCritical # <<>> /\ Malformed(CallCritical)

DefectCount ==
    Cardinality({d \in {"duplicate", "value", "many", "warning", "critical"} :
        \/ d = "duplicate" /\ IsDuplicate
        \/ d = "value" /\ NotNumeric
        \/ d = "many" /\ TooMany
        \/ d = "warning" /\ BadWarning
        \/ d = "critical" /\ BadCritical})

SpecText ==
    <<"c">> :> "c" @@ <<"2", ":", "1">> :> "2:1" @@ <<"2">> :> "2" @@ <<>> :> ""

\* C25: the one error AddMetric returns is that of the duplicate name if
\* the name is registered; otherwise that of the value if it is no number;
\* otherwise that of the arguments (too many) or of the first malformed
\* spec, the warning spec before the critical one; a call without defect
\* returns none.
C25_ErrorPrecedence ==
    Returned("AddMetric") =>
        ret = IF IsDuplicate THEN "Duplicated metric " \o CallNameText
              ELSE IF NotNumeric
              THEN "Invalid value of " \o CallNameText \o ": c"
              ELSE IF TooMany THEN "Too many arguments"
              ELSE IF BadWarning
              THEN "Invalid format of warning threshold " \o CallNameText
                       \o ": " \o SpecText[CallWarn]
              ELSE IF BadCritical
              THEN "Invalid format of critical threshold " \o CallNameText
                       \o ": " \o SpecText[CallCritical]
              ELSE Nil

\* A call with a registered name, a value that is no number and four
\* arguments of which two are malformed specs was answered with the
\* duplicate name.
C25_Witness ==
    /\ Failed("AddMetric")
    /\ IsDuplicate /\ NotNumeric /\ TooMany
    /\ CallWarn = <<"c">>
    /\ CallCritical = <<"2", ":", "1">>
    /\ DefectCount = 3
    /\ ret = "Duplicated metric 'a b'"
    /\ p = pre

-----------------------------------------------------------------------------
(* The claim about a negative single bound, under SpecNegative *)

NegativeBounds == {<<"-", "1">>, <<"-", "2">>, <<"-", "1", ".", "5">>}

ReversedRanges == {<<"2", ":", "1">>, <<"-", "1", ":", "-", "2">>}

\* The spec under evaluation without its leading '@'.
EvalPlain == IF HasPrefix(EvalSpec, "@") THEN Tail(EvalSpec) ELSE EvalSpec

EvalInverted == HasPrefix(EvalSpec, "@")

\* The value of the call made is a number: it is not the float64 NaN and
\* not the string "NaN", which i2f parses to it.
CallIsNumber == call.value \notin {FloatV(NaN), StrV(<<"N", "a", "N">>)}

\* C26: a single-bound spec "X" with X < 0 is accepted without a format
\* error, every value breaches it and no value breaches "@X"; the format
\* error of a reversed range is that of the two-bound form A:B only. The
\* value NaN refutes it: see C26_NegativeBoundNumbers.
C26_NegativeBound ==
    call.op = "AddMetric" =>
        /\ EvalPlain \in NegativeBounds =>
               /\ ret = Nil
               /\ EvalBreached <=> ~EvalInverted
        /\ ret # Nil <=> EvalPlain \in ReversedRanges

\* What holds of the code: C26 for every value that is a number, and the
\* opposite decision for NaN, which no comparison finds below or above a
\* bound.
C26_NegativeBoundNumbers ==
    call.op = "AddMetric" =>
        /\ EvalPlain \in NegativeBounds =>
               /\ ret = Nil
               /\ CallIsNumber => (EvalBreached <=> ~EvalInverted)
               /\ ~CallIsNumber => (EvalBreached <=> EvalInverted)
        /\ ret # Nil <=> EvalPlain \in ReversedRanges

\* The float64 NaN was passed with the warning spec "-1": the call returned
\* no error, the metric is stored as OK without a message, and Final would
\* write an OK line.
C26_Witness ==
    /\ Succeeded("AddMetric")
    /\ call.value = FloatV(NaN)
    /\ call.args = <<<<>>, <<"-", "1">>>>
    /\ p.metrics[EvalName].status = OK
    /\ p.status = OK
    /\ p.messages = <<>>
    /\ FinalOutput(p) = "OK: | m1=NaN;-1;;;\n"

-----------------------------------------------------------------------------
(* The claim about duplicates among quoted names, under SpecQuoted *)

Spaced == <<"a", " ", "b">>

Quoted == <<"'", "a", " ", "b", "'">>

\* The other spelling of the same stored name.
Twin(name) == IF name = Spaced THEN Quoted ELSE Spaced

\* C27: the duplicate test is made on the stored name, after the quoting:
\* once a metric is registered as a b or as 'a b', a call with either
\* spelling fails with 'Duplicated metric 'a b'', the quoted name, and
\* changes nothing; the registry holds the quoted name only.
C27_QuotedDuplicate ==
    /\ Spaced \notin DOMAIN p.metrics
    /\ Quoted \in DOMAIN p.metrics <=> passed \cap {Spaced, Quoted} # {}
    /\ (Returned("AddMetric") /\ call.name \in {Spaced, Quoted}
            /\ Quoted \in DOMAIN pre.metrics) =>
           /\ ret = "Duplicated metric 'a b'"
           /\ p = pre
    /\ (Returned("AddMetric") /\ call.name \in {Spaced, Quoted}
            /\ Twin(call.name) \in passed) =>
           /\ ret = "Duplicated metric 'a b'"
           /\ call.name \notin passed

\* The metric was registered under the name passed as 'a b', and the call
\* that passed a b has failed as a duplicate.
C27_Witness ==
    /\ Failed("AddMetric")
    /\ call.name = Spaced
    /\ passed = {Quoted}
    /\ ret = "Duplicated metric 'a b'"
    /\ DOMAIN p.metrics = {Quoted}

-----------------------------------------------------------------------------
(* The claim about the order of the operations, under SpecOrder *)

\* One operation of the list applied to the Plugin q.
ApplyOp(q, o) ==
    IF o.op = "AddResult" THEN AddResult(q, o.code, o.msg)
    ELSE AddMetric(q, o.name, o.value, o.args).p

RECURSIVE ApplyTimes(_, _, _)
ApplyTimes(q, o, n) ==
    IF n = 0 THEN q ELSE ApplyTimes(ApplyOp(q, o), o, n - 1)

\* The operations applied so far, applied to a new Plugin in the order of
\* the list instead: the operations from the i-th on, applied to q.
RECURSIVE InListOrder(_, _)
InListOrder(q, i) ==
    IF i > Len(OrderOps) THEN q
    ELSE InListOrder(ApplyTimes(q, OrderOps[i], passed[i]), i + 1)

Listed ==
    InListOrder([New(PluginName, PluginVersion) EXCEPT
                    !.AllMetricsInOutput = p.AllMetricsInOutput], 1)

\* How many times the text t occurs among the messages.
Occurrences(msgs, t) == Cardinality({i \in 1..Len(msgs) : msgs[i] = t})

\* What Final writes for q apart from its messages: the status word and
\* the metrics section.
WithoutMessages(q) == FinalOutput([q EXCEPT !.messages = <<>>])

\* C28: whatever the order in which AddResult calls and successful
\* AddMetric calls with names of their own are applied to a new Plugin, the
\* overall status, the registry and the metrics section Final writes are
\* those of the same calls applied in the order of the list, and the
\* messages are the same texts the same number of times: the order of the
\* messages alone depends on the order of the calls.
C28_OrderIndependent ==
    /\ call.op = "AddMetric" => ret = Nil
    /\ p.status = Listed.status
    /\ p.metrics = Listed.metrics
    /\ WithoutMessages(p) = WithoutMessages(Listed)
    /\ Len(p.messages) = Len(Listed.messages)
    /\ \A i \in 1..Len(p.messages) :
           Occurrences(p.messages, p.messages[i])
               = Occurrences(Listed.messages, p.messages[i])

\* The three metrics were added, the last of the list first, and then the
\* CRITICAL result: status and metrics section are those of the list order,
\* the messages are in the order of the calls.
C28_Witness ==
    /\ passed = <<0, 0, 1, 1, 1, 1>>
    /\ p.messages = <<"'a b' is 1s (inside @2)", "m1 is 2.5s (outside 2)", "down">>
    /\ Listed.messages
           = <<"down", "m1 is 2.5s (outside 2)", "'a b' is 1s (inside @2)">>
    /\ WithoutMessages(p)
           = "CRITICAL: | 'a b'=1s;2;@2;; m=1;;;; m1=2.5s;2;@2;;\n"

====
